---- MODULE Spec2Model ----
(***************************************************************************)
(* A model of the rothskeller/pdf libraries: package pdfstruct (the object *)
(* store: Open, Get, UpdateObject, CreateObject, Write, the cross-reference *)
(* reader and the stream decoder) and package pdfform (GetFields, SetField, *)
(* ClonePage).                                                              *)
(*                                                                         *)
(* The file is a sequence of records; the offset of a record is its index  *)
(* in the sequence (1-based, so that offset 0 is "no offset", as in the    *)
(* code's "for addr != 0").  A record is an indirect object                *)
(* "num gen obj body endobj", a classic xref table with its trailer, or a  *)
(* "startxref" line.  Objects are tagged records.                          *)
(***************************************************************************)
EXTENDS Integers, Sequences, FiniteSets, TLC

VARIABLES
    file,       \* the bytes behind PDF.fh, as a sequence of records
    xref,       \* PDF.xref: slot n is xref[n+1]
    start,      \* PDF.start
    Info,       \* PDF.Info
    Catalog,    \* PDF.Catalog
    updates,    \* PDF.updates: a function from Reference to Object
    ret,        \* the result of the last call (history)
    snap,       \* the store as it was when the last Write started (history)
    nops,       \* the number of calls made so far (bounds the model)
    rd,         \* the cross-reference reader's position (specification XRefSpec)
    hist        \* the SetField calls made so far (history, specification FormSpec)

vars == <<file, xref, start, Info, Catalog, updates, ret, snap, nops, rd, hist>>

----------------------------------------------------------------------------
(* Bounds of the model. *)

MaxOps == 4         \* calls per behaviour
MaxFuel == 4        \* nesting depth of Get / sections read by readXRef

(* Program constants. *)

GenByteMod == 256           \* byte(refs[i].Generation)
PushButtonBit == 16         \* flags&(1<<16)
RadioBit == 15              \* flags&(1<<15)
ComboBit == 17              \* 0x60000, the lower bit
EditBit == 18               \* 0x60000, the upper bit

----------------------------------------------------------------------------
(* Objects (pdfstruct.Object). *)

Null == [t |-> "null"]
Integer(i) == [t |-> "int", v |-> i]
Str(s) == [t |-> "string", v |-> s]
Name(s) == [t |-> "name", v |-> s]
Array(a) == [t |-> "array", a |-> a]
Dict(d) == [t |-> "dict", d |-> d]
Stream(d, data) == [t |-> "stream", d |-> d, data |-> data]
Reference(n, g) == [t |-> "ref", Number |-> n, Generation |-> g]

(* A Reference used as a key of PDF.updates or as an argument of Get. *)
Ref(n, g) == [Number |-> n, Generation |-> g]
AsRef(o) == [Number |-> o.Number, Generation |-> o.Generation]

(* Stream data: the payload and the encodings still applied to it,         *)
(* outermost first.  The payload of an object stream is the sequence of    *)
(* the objects in it; that of an xref stream the sequence of its rows.     *)
Data(enc, raw) == [enc |-> enc, raw |-> raw]

IsDict(o) == o.t = "dict"
IsRef(o) == o.t = "ref"
IsInt(o) == o.t = "int"
IsName(o) == o.t = "name"
IsStr(o) == o.t = "string"
IsArray(o) == o.t = "array"
IsStream(o) == o.t = "stream"

Has(d, k) == k \in DOMAIN d
(* d[k] of a Go map: the zero value (nil) when the key is absent. *)
At(d, k) == IF k \in DOMAIN d THEN d[k] ELSE Null
Put(d, k, v) == [j \in DOMAIN d \cup {k} |-> IF j = k THEN v ELSE d[j]]
Del(d, k) == [j \in DOMAIN d \ {k} |-> d[j]]
EmptyDict == [j \in {} |-> Null]

----------------------------------------------------------------------------
(* Cross-reference table entries. *)

xrefFree(next, gen) == [t |-> "free", next |-> next, gen |-> gen]
xrefDirect(offset, gen) == [t |-> "direct", offset |-> offset, gen |-> gen, cache |-> Null]
xrefStream(stream, index) ==
    [t |-> "objstm", stream |-> stream, index |-> index, cache |-> Null]

(* File records. *)
ObjRec(num, gen, body) == [t |-> "obj", num |-> num, gen |-> gen, body |-> body]
TableRec(subs, trailer) == [t |-> "xreftab", subs |-> subs, trailer |-> trailer]
StartXRefRec(off) == [t |-> "startxref", off |-> off]

(* Results. *)
Ok(o, reads) == [err |-> "", obj |-> o, reads |-> reads]
Fail(e, reads) == [err |-> e, obj |-> Null, reads |-> reads]

----------------------------------------------------------------------------
(* The parser, as far as the store needs it. *)

(* readObjectAt: the object at an offset of the file.  Reading past the    *)
(* end fails, and so does parsing anything that is not an object: the      *)
(* words "xref" and "startxref" are unexpected bare words.  A stream needs *)
(* an integer /Length in its dictionary.                                   *)
readObjectAt(f, addr) ==
    IF addr < 1 \/ addr > Len(f) THEN Fail("read", 1)
    ELSE IF f[addr].t # "obj" THEN Fail("parse", 1)
    ELSE IF IsStream(f[addr].body) /\ ~IsInt(At(f[addr].body.d, "Length"))
         THEN Fail("parse", 1)
    ELSE Ok(f[addr].body, 1)

----------------------------------------------------------------------------
(* Stream.Decompress and decompressFlateStream. *)

(* The layers a PNG predictor leaves on a payload: "PNG" for rows that     *)
(* do not read as the text they encode, "PNGNone" for rows of filter type  *)
(* 0 whose filter bytes (0x00, white space to the parser) stand between    *)
(* the tokens, so that the parser reads the predicted payload as it reads  *)
(* the decoded one.                                                        *)
PNGLayers == {"PNG", "PNGNone"}

(* The parser reads the payload as the objects it encodes. *)
Readable(data) == \A i \in 1..Len(data.enc) : data.enc[i] = "PNGNone"

(* The result of applying FlateDecode with decode parameters dp to data.   *)
(* s.Data is assigned as soon as the data is inflated, before the          *)
(* predictor is looked at, and unpredictPNG's error assigns nil to it.     *)
decompressFlateStream(data, dp, rowsize) ==
    IF data.enc = <<>> \/ Head(data.enc) # "FlateDecode"
    THEN [err |-> "zlib", data |-> data]
    ELSE LET inflated == Data(Tail(data.enc), data.raw)
             pred == At(dp, "Predictor")
         IN  IF pred = Null THEN [err |-> "", data |-> inflated]
             ELSE IF ~IsInt(pred) THEN [err |-> "predictor", data |-> inflated]
             ELSE IF pred.v = 1 THEN [err |-> "", data |-> inflated]
             ELSE IF pred.v \in 10..15
                  THEN IF rowsize = 0 THEN [err |-> "rowsize", data |-> inflated]
                       ELSE IF inflated.enc # <<>> /\ Head(inflated.enc) \in PNGLayers
                            THEN [err |-> "", data |-> Data(Tail(inflated.enc), inflated.raw)]
                            ELSE [err |-> "png", data |-> Data(<<>>, <<>>)]
             ELSE [err |-> "predictor", data |-> inflated]

(* The filters /Filter names, as a sequence of strings; <<"?">> when the   *)
(* entry is malformed.                                                     *)
FilterList(fl) ==
    IF IsName(fl) THEN <<fl.v>>
    ELSE IF IsArray(fl) /\ \A i \in 1..Len(fl.a) : IsName(fl.a[i])
         THEN [i \in 1..Len(fl.a) |-> fl.a[i].v]
    ELSE <<"?">>

(* The decode parameters of filter i. *)
ParmsOf(s, i) ==
    LET dp == At(s.d, "DecodeParms") IN
    IF IsDict(dp) THEN dp.d
    ELSE IF IsArray(dp) /\ i <= Len(dp.a) /\ IsDict(dp.a[i]) THEN dp.a[i].d
    ELSE EmptyDict

ParmsOk(s) ==
    LET fl == At(s.d, "Filter")
        dp == At(s.d, "DecodeParms") IN
    \/ dp = Null
    \/ IsName(fl) /\ IsDict(dp)
    \/ IsArray(fl) /\ IsArray(dp) /\ Len(dp.a) = Len(fl.a)
                   /\ \A i \in 1..Len(dp.a) : IsDict(dp.a[i])

RECURSIVE ApplyFilters(_, _, _, _)
ApplyFilters(s, filters, i, rowsize) ==
    IF i > Len(filters) THEN [err |-> "", s |-> Stream(Del(s.d, "Filter"), s.data)]
    ELSE IF filters[i] # "FlateDecode" THEN [err |-> "unsupported", s |-> s]
    ELSE LET r == decompressFlateStream(s.data, ParmsOf(s, i), rowsize) IN
         IF r.err # "" THEN [err |-> r.err, s |-> Stream(s.d, r.data)]
         ELSE ApplyFilters(Stream(s.d, r.data), filters, i + 1, rowsize)

(* Decompress: the error and the stream as the call leaves it. *)
Decompress(s, rowsize) ==
    LET fl == At(s.d, "Filter") IN
    IF fl = Null THEN [err |-> "", s |-> s]
    ELSE IF FilterList(fl) = <<"?">> THEN [err |-> "filter", s |-> s]
    ELSE IF ~ParmsOk(s) THEN [err |-> "parms", s |-> s]
    ELSE ApplyFilters(s, FilterList(fl), 1, rowsize)

----------------------------------------------------------------------------
(* Get. *)

(* extractObjectFromStream: the object at index idx of an object stream.   *)
(* An undecoded payload does not parse as the integers of the header.      *)
extractObjectFromStream(s, idx) ==
    IF At(s.d, "Type") # Name("ObjStm") THEN Fail("not an object stream", 0)
    ELSE IF ~IsInt(At(s.d, "N")) \/ idx < 0 \/ idx >= At(s.d, "N").v
         THEN Fail("index out of range", 0)
    ELSE IF ~IsInt(At(s.d, "First")) THEN Fail("missing First", 0)
    ELSE IF ~Readable(s.data) \/ idx >= Len(s.data.raw) THEN Fail("header", 0)
    ELSE Ok(s.data.raw[idx + 1].obj, 0)

(* Get(r) on the table xr and the file f.  The entry the type switch binds *)
(* is a copy, so "xe.cache = obj" changes nothing the store keeps: Get     *)
(* leaves the table as it is and every call parses again.  The result      *)
(* carries the number of readObjectAt calls made.  fuel bounds the nesting *)
(* of containers.                                                          *)
(* The rest of Get on an entry of an object stream, once the container c   *)
(* has been fetched: the error of Decompress is dropped.  When the call    *)
(* for the container does not come back, this one does not either.         *)
GetFromContainer(c, index) ==
    IF c.err = "diverges" THEN c
    ELSE IF c.err # "" THEN Fail("container", c.reads)
    ELSE IF ~IsStream(c.obj) THEN Fail("not a stream", c.reads)
    ELSE [extractObjectFromStream(Decompress(c.obj, 0).s, index) EXCEPT !.reads = c.reads]

(* Get on a Direct entry: the generation is compared first, the file is    *)
(* parsed after.  The mutant parses first.                                 *)
GetDirect_ReadFirst(f, xe, r) ==
    IF xe.gen # r.Generation THEN Fail("generation", readObjectAt(f, xe.offset).reads)
    ELSE readObjectAt(f, xe.offset)

GetDirect(f, xe, r) ==
    IF xe.gen # r.Generation THEN Fail("generation", 0)
    ELSE IF xe.cache # Null THEN Ok(xe.cache, 0)
    ELSE readObjectAt(f, xe.offset)

RECURSIVE Get(_, _, _, _)
Get(xr, f, r, fuel) ==
    IF r.Number < 1 \/ r.Number >= Len(xr) THEN Fail("out of range", 0)
    ELSE LET xe == xr[r.Number + 1] IN
         IF xe.t = "free" THEN Fail("free", 0)
         ELSE IF xe.t = "direct"
         THEN GetDirect(f, xe, r)
         ELSE IF xe.t = "objstm"
         THEN IF r.Generation # 0 THEN Fail("nonzero generation", 0)
              ELSE IF xe.cache # Null THEN Ok(xe.cache, 0)
              ELSE IF fuel = 0 THEN Fail("diverges", 0)
              ELSE GetFromContainer(Get(xr, f, Ref(xe.stream, 0), fuel - 1), xe.index)
         ELSE Ok(xe, 0)

(* The table after a Get(r) that parsed obj.  "xe.cache = obj" assigns to  *)
(* xe, the variable of the type switch, which holds a copy of the entry    *)
(* (the table holds xrefDirect and xrefStream values, not pointers), so    *)
(* the slot keeps its empty cache.                                         *)
TableAfterGet(xr, r, obj) == xr

(* The type assertion GetDict, GetArray and GetStream make on what Get     *)
(* returned.                                                               *)
Expect(g, tag, e) == IF g.err = "" /\ g.obj.t # tag THEN Fail(e, g.reads) ELSE g

GetDict(xr, f, r) == Expect(Get(xr, f, r, MaxFuel), "dict", "not a Dict")

GetArray(xr, f, r) == Expect(Get(xr, f, r, MaxFuel), "array", "not an Array")

GetStream(xr, f, r) == Expect(Get(xr, f, r, MaxFuel), "stream", "not a Stream")

----------------------------------------------------------------------------
(* The cross-reference reader. *)

(* The table extended with empty (nil) slots to length n. *)
Grow(xr, n) ==
    IF Len(xr) < n THEN xr \o [i \in 1..(n - Len(xr)) |-> Null] ELSE xr

(* The entry a 20-byte line of a classic table holds. *)
TableEntry(line) ==
    IF line.c = "n" THEN xrefDirect(line.a, line.g) ELSE xrefFree(line.a, line.g)

(* readXRefTableSection: one subsection (start, count lines) merged into   *)
(* the table; a slot that is not nil is skipped.                           *)
readXRefTableSection_Overwrite(xr, sub) ==
    LET t == Grow(xr, sub.start + Len(sub.lines)) IN
    [i \in 1..Len(t) |->
        IF i - 1 >= sub.start /\ i - 1 < sub.start + Len(sub.lines)
        THEN TableEntry(sub.lines[i - sub.start])
        ELSE t[i]]

readXRefTableSection(xr, sub) ==
    LET t == Grow(xr, sub.start + Len(sub.lines)) IN
    [i \in 1..Len(t) |->
        IF t[i] = Null /\ i - 1 >= sub.start /\ i - 1 < sub.start + Len(sub.lines)
        THEN TableEntry(sub.lines[i - sub.start])
        ELSE t[i]]

RECURSIVE TableSections(_, _, _)
TableSections(xr, subs, i) ==
    IF i > Len(subs) THEN xr
    ELSE TableSections(readXRefTableSection(xr, subs[i]), subs, i + 1)

(* The keys of an xref stream dictionary that are not document information. *)
MechanicsKeys ==
    {"Prev", "Index", "W", "Type", "Length", "Filter", "DecodeParms", "F",
     "FFilter", "FDecodeParms", "DL"}

(* Keys ks of d merged into info; a key info already has is kept. *)
MergeInfo(info, d, ks) ==
    [k \in DOMAIN info \cup (DOMAIN d \cap ks) |->
        IF k \in DOMAIN info THEN info[k] ELSE d[k]]

(* getStreamElement: a field of the given size, or the default when the    *)
(* size is zero.                                                           *)
getStreamElement(field, size, def) == IF size = 0 THEN def ELSE field

(* The object numbers /Index names, in its order. *)
RECURSIVE IndexNumbers(_)
IndexNumbers(index) ==
    IF Len(index) < 2 THEN <<>>
    ELSE [i \in 1..index[2] |-> index[1] + i - 1] \o IndexNumbers(SubSeq(index, 3, Len(index)))

StreamEntry(row, w) ==
    LET xtype == getStreamElement(row[1], w[1], 1)
        f2 == getStreamElement(row[2], w[2], 0)
        f3 == getStreamElement(row[3], w[3], 0) IN
    IF xtype = 0 THEN xrefFree(f2, f3)
    ELSE IF xtype = 1 THEN xrefDirect(f2, f3)
    ELSE IF xtype = 2 THEN xrefStream(f2, f3)
    ELSE Null

(* The walk over the entries of an xref stream: the rows are taken in      *)
(* order for the object numbers nums; an entry goes into its slot when the *)
(* slot is nil.  Running out of rows, or a number past the end of the      *)
(* table, is an index out of range ("panic").                              *)
RECURSIVE WalkEntries(_, _, _, _, _)
WalkEntries(xr, nums, rows, w, k) ==
    IF k > Len(nums)
    THEN [err |-> IF Len(rows) >= k THEN "extra data" ELSE "", xr |-> xr]
    ELSE IF k > Len(rows) THEN [err |-> "panic", xr |-> xr]
    ELSE IF StreamEntry(rows[k], w) = Null THEN [err |-> "invalid type", xr |-> xr]
    ELSE IF nums[k] + 1 > Len(xr) THEN [err |-> "panic", xr |-> xr]
    ELSE WalkEntries(
            IF xr[nums[k] + 1] = Null
            THEN [xr EXCEPT ![nums[k] + 1] = StreamEntry(rows[k], w)] ELSE xr,
            nums, rows, w, k + 1)

IntsOf(arr) == [i \in 1..Len(arr.a) |-> arr.a[i].v]
AllInts(arr) == \A i \in 1..Len(arr.a) : IsInt(arr.a[i])

XRes(e, xr, info, prev) == [err |-> e, xr |-> xr, info |-> info, prev |-> prev]

(* The end of readXRefStream: the result of the walk over the entries. *)
XResOfWalk(wk, info, prev) == XRes(wk.err, wk.xr, info, prev)

(* readXRefStream from the decoding of the payload on: t is the table      *)
(* grown to the last pair of /Index, dec the result of Decompress.         *)
readXRefStreamData(xr, t, info, prev, dec, nums, w) ==
    IF dec.err # "" THEN XRes("decompress", xr, info, prev)
    ELSE IF dec.s.data.enc # <<>> THEN XRes("panic", t, info, prev)
    ELSE XResOfWalk(WalkEntries(t, nums, dec.s.data.raw, w, 1), info, prev)

(* readXRefStream on the object o read at the section's offset. *)
readXRefStreamObj(xr, info, o) ==
    IF o.err # "" THEN XRes("read", xr, info, 0)
    ELSE IF ~IsStream(o.obj) THEN XRes("expected xref stream", xr, info, 0)
    ELSE IF At(o.obj.d, "Type") # Name("XRef") THEN XRes("expected /Type XRef", xr, info, 0)
    ELSE LET d == o.obj.d
             prev == At(d, "Prev")
             ix == At(d, "Index")
             sz == At(d, "Size")
             wa == At(d, "W")
         IN
         IF Has(d, "Prev") /\ ~IsInt(prev) THEN XRes("Prev", xr, info, 0)
         ELSE IF Has(d, "Index") /\ ~(IsArray(ix) /\ AllInts(ix)
                                       /\ Len(ix.a) >= 2 /\ Len(ix.a) % 2 = 0)
              THEN XRes("Index", xr, info, 0)
         ELSE IF Has(d, "Size") /\ ~IsInt(sz) THEN XRes("Size", xr, info, 0)
         ELSE IF Has(d, "W") /\ ~(IsArray(wa) /\ Len(wa.a) = 3 /\ AllInts(wa))
              THEN XRes("W", xr, info, 0)
         ELSE LET info2 == MergeInfo(info, d, DOMAIN d \ MechanicsKeys)
                  index == IF Has(d, "Index") THEN IntsOf(ix)
                           ELSE IF Has(d, "Size") THEN <<0, sz.v>> ELSE <<>>
                  p == IF Has(d, "Prev") THEN prev.v ELSE 0
              IN
              IF index = <<>> THEN XRes("missing /Index and /Size", xr, info2, p)
              ELSE IF ~Has(d, "W") THEN XRes("missing /W", xr, info2, p)
              ELSE readXRefStreamData(
                        xr, Grow(xr, index[Len(index) - 1] + index[Len(index)]), info2, p,
                        Decompress(o.obj, wa.a[1].v + wa.a[2].v + wa.a[3].v),
                        IndexNumbers(index), IntsOf(wa))

(* readXRefStream: the xref stream at addr merged into the table and Info. *)
readXRefStream(xr, info, f, addr) == readXRefStreamObj(xr, info, readObjectAt(f, addr))

(* readXRefTable: the classic table at addr, then its trailer.  The        *)
(* trailer's keys are visited in the order of a map iteration, so the      *)
(* stream /XRefStm names is read before (stmFirst) or after the other keys *)
(* go into Info.                                                           *)
TrailerDocKeys(tr) == DOMAIN tr \ {"Prev", "XRefStm"}

(* The trailer once the stream /XRefStm names has been read with result s. *)
readXRefTrailerStm(s, tr, p) ==
    IF s.err # "" THEN XRes(s.err, s.xr, s.info, 0)
    ELSE XRes("", s.xr, MergeInfo(s.info, tr, TrailerDocKeys(tr)), p)

(* The trailer tr of a table whose subsections gave the table t. *)
readXRefTrailer(t, info, f, tr, stmFirst) ==
    LET p == IF Has(tr, "Prev") /\ IsInt(tr["Prev"]) THEN tr["Prev"].v ELSE 0 IN
    IF Has(tr, "Prev") /\ ~IsInt(tr["Prev"]) THEN XRes("Prev", t, info, 0)
    ELSE IF Has(tr, "XRefStm") /\ ~IsInt(tr["XRefStm"]) THEN XRes("XRefStm", t, info, 0)
    ELSE IF ~Has(tr, "XRefStm") THEN XRes("", t, MergeInfo(info, tr, TrailerDocKeys(tr)), p)
    ELSE readXRefTrailerStm(
            readXRefStream(t, IF stmFirst THEN info ELSE MergeInfo(info, tr, TrailerDocKeys(tr)),
                           f, tr["XRefStm"].v),
            tr, p)

readXRefTable(xr, info, f, addr, stmFirst) ==
    readXRefTrailer(TableSections(xr, f[addr].subs, 1), info, f, f[addr].trailer, stmFirst)

(* readXRefSection: a table when the section starts with the word "xref",  *)
(* an xref stream otherwise.                                               *)
readXRefSection(xr, info, f, addr, stmFirst) ==
    IF addr < 1 \/ addr > Len(f) THEN XRes("read", xr, info, 0)
    ELSE IF f[addr].t = "xreftab" THEN readXRefTable(xr, info, f, addr, stmFirst)
    ELSE readXRefStream(xr, info, f, addr)

(* readStartXRef: the offset after "startxref" at the very end of the file. *)
readStartXRef(f) ==
    IF Len(f) > 0 /\ f[Len(f)].t = "startxref"
    THEN [err |-> "", start |-> f[Len(f)].off]
    ELSE [err |-> "no startxref", start |-> 0]

(* The loop of readXRef from addr on; fuel bounds the sections read. *)
RECURSIVE readXRefFrom(_, _, _, _, _, _)
RECURSIVE readXRefLoop(_, _, _, _)

(* After a section was read with result s: stop on its error, go on at its *)
(* /Prev otherwise.                                                        *)
readXRefLoop(s, f, stmFirst, fuel) ==
    IF s.err # "" THEN s
    ELSE readXRefFrom(s.xr, s.info, f, s.prev, stmFirst, fuel)

readXRefFrom(xr, info, f, addr, stmFirst, fuel) ==
    IF addr = 0 THEN XRes("", xr, info, 0)
    ELSE IF fuel = 0 THEN XRes("diverges", xr, info, addr)
    ELSE readXRefLoop(readXRefSection(xr, info, f, addr, stmFirst), f, stmFirst, fuel - 1)

readXRef(f, stmFirst) ==
    IF readStartXRef(f).err # "" THEN XRes(readStartXRef(f).err, <<>>, EmptyDict, 0)
    ELSE readXRefFrom(<<>>, EmptyDict, f, readStartXRef(f).start, stmFirst, MaxFuel)

NoStore(e) ==
    [err |-> e, xref |-> <<>>, start |-> 0, Info |-> EmptyDict, Catalog |-> EmptyDict]

(* The end of Open: c is what Get returned for the catalog. *)
OpenCatalog(x, st, c) ==
    IF c.err # "" THEN NoStore("reading document catalog")
    ELSE IF ~IsDict(c.obj) THEN NoStore("catalog is not a Dict")
    ELSE [err |-> "", xref |-> x.xr, start |-> st, Info |-> x.info, Catalog |-> c.obj.d]

(* Open after readXRef returned x. *)
OpenXRef(f, x, st) ==
    IF x.err # "" THEN NoStore(x.err)
    ELSE IF ~IsRef(At(x.info, "Root")) THEN NoStore("Root is not a Reference")
    ELSE OpenCatalog(x, st, Get(x.xr, f, AsRef(At(x.info, "Root")), MaxFuel))

(* Open: the store read from file f. *)
Open(f, stmFirst) == OpenXRef(f, readXRef(f, stmFirst), readStartXRef(f).start)

----------------------------------------------------------------------------
(* The incremental writer. *)

(* The keys of the dirty set by descending object number. *)
RECURSIVE SortedRefs_Descending(_)
SortedRefs_Descending(S) ==
    IF S = {} THEN <<>>
    ELSE LET m == CHOOSE r \in S : \A q \in S : r.Number >= q.Number
         IN  <<m>> \o SortedRefs_Descending(S \ {m})

(* The keys of the dirty set, sorted by object number. *)
RECURSIVE SortedRefs(_)
SortedRefs(S) ==
    IF S = {} THEN <<>>
    ELSE LET m == CHOOSE r \in S : \A q \in S :
                    \/ r.Number < q.Number
                    \/ r.Number = q.Number /\ r.Generation <= q.Generation
         IN  <<m>> \o SortedRefs(S \ {m})

(* writeRawObject: the body as written.  A stream gets /Length set to the  *)
(* length of its data.                                                     *)
writeRawObject(obj) ==
    IF IsStream(obj)
    THEN Stream(Put(obj.d, "Length", Integer(Len(obj.data.raw))), obj.data)
    ELSE obj

(* writeObject: the record "num gen obj body endobj". *)
writeObject(ref, obj) == ObjRec(ref.Number, ref.Generation, writeRawObject(obj))

RECURSIVE IndexOf(_)
IndexOf(nums) ==
    IF nums = <<>> THEN <<>>
    ELSE <<Integer(Head(nums)), Integer(1)>> \o IndexOf(Tail(nums))

(* writeXRefDict: the dictionary of the new xref stream, whose object      *)
(* number is the length of the table.                                      *)
writeXRefDict(info, xr, prev, refs) ==
    LET xdnum == Len(xr)
        own == [Prev |-> Integer(prev),
                Length |-> Integer(6 * (Len(refs) + 1)),
                Type |-> Name("XRef"),
                Index |-> Array(IndexOf([i \in 1..Len(refs) |-> refs[i].Number] \o <<xdnum>>)),
                Size |-> Integer(xdnum + 1),
                W |-> Array(<<Integer(1), Integer(4), Integer(1)>>)]
    IN  [k \in DOMAIN info \cup DOMAIN own |-> IF k \in DOMAIN own THEN own[k] ELSE info[k]]

(* writeXRefStream: one six-byte row per reference: the type 1, the offset *)
(* as a uint32, the generation as a byte.                                  *)
(* uint32(offset): offsets here are record positions, far below 2^32, where *)
(* the conversion changes nothing.                                         *)
Uint32(n) == n

writeXRefStream(refs, offsets) ==
    [i \in 1..Len(refs) |-> <<1, Uint32(offsets[i]), refs[i].Generation % GenByteMod>>]

writeStartXRef(off) == StartXRefRec(off)

(* The records Write emits with the file position at offset `at`: the     *)
(* dirty objects by object number, the xref stream and the startxref.      *)
WriteAt(f, at, xr, info, prev, upd) ==
    LET refs == SortedRefs(DOMAIN upd)
        n == Len(refs)
        offsets == [i \in 1..n |-> at + i]
        xoff == at + n + 1
        xdnum == Len(xr)
        xd == writeXRefDict(info, xr, prev, refs)
        rows == writeXRefStream(refs \o <<Ref(xdnum, 0)>>, offsets \o <<xoff>>)
    IN  SubSeq(f, 1, at) \o [i \in 1..n |-> writeObject(refs[i], upd[refs[i]])]
          \o <<ObjRec(xdnum, 0, Stream(xd, Data(<<>>, rows)))>>
          \o <<writeStartXRef(xoff)>>

(* A writer that starts over the last record of the file instead of at    *)
(* its end.                                                                *)
Write_OverLastRecord(f, xr, info, prev, upd) ==
    IF DOMAIN upd = {} THEN f ELSE WriteAt(f, Len(f) - 1, xr, info, prev, upd)

(* Write: the file after the call.  Nothing is written when the dirty set  *)
(* is empty; otherwise the writer seeks to the end of the file.            *)
Write(f, xr, info, prev, upd) ==
    IF DOMAIN upd = {} THEN f ELSE WriteAt(f, Len(f), xr, info, prev, upd)

(* The dirty set after Write: writeRawObject has set /Length in the        *)
(* dictionary of every stream it wrote.                                    *)
UpdatesAfterWrite(upd) == [r \in DOMAIN upd |-> writeRawObject(upd[r])]

(* The table after Write: a created stream shares its dictionary with the  *)
(* dirty set, so it shows the same /Length.                                *)
XRefAfterWrite(xr, upd) ==
    [i \in 1..Len(xr) |->
        IF Ref(i - 1, 0) \in DOMAIN upd /\ xr[i] = upd[Ref(i - 1, 0)]
        THEN writeRawObject(xr[i]) ELSE xr[i]]

----------------------------------------------------------------------------
(* The file the store specification opens: a classic table, then an        *)
(* incremental update whose cross-reference section is an xref stream.     *)
(*   1 catalog; 2 an integer, generation 256; 3 a compressed stream;       *)
(*   4 free; 5 a compressed object stream holding 6 and 7; 8 the xref      *)
(*   stream.                                                               *)

Line(c, a, g) == [c |-> c, a |-> a, g |-> g]
Sub(first, lines) == [start |-> first, lines |-> lines]
Member(num, obj) == [num |-> num, obj |-> obj]

StoreFile ==
    << ObjRec(1, 0, Dict([Type |-> Name("Catalog")])),
       ObjRec(2, 256, Integer(7)),
       ObjRec(3, 0, Stream([Length |-> Integer(1), Filter |-> Name("FlateDecode")],
                           Data(<<"FlateDecode">>, <<"content">>))),
       TableRec(<<Sub(0, <<Line("f", 0, 65535), Line("n", 1, 0), Line("n", 2, 256),
                           Line("n", 3, 0), Line("f", 0, 1)>>)>>,
                [Root |-> Reference(1, 0), Size |-> Integer(5)]),
       StartXRefRec(4),
       ObjRec(5, 0, Stream([Type |-> Name("ObjStm"), N |-> Integer(2), First |-> Integer(8),
                            Length |-> Integer(2), Filter |-> Name("FlateDecode")],
                           Data(<<"FlateDecode">>,
                                <<Member(6, Integer(8)), Member(7, Dict([K |-> Integer(9)]))>>))),
       ObjRec(8, 0, Stream([Type |-> Name("XRef"), Size |-> Integer(9), Prev |-> Integer(4),
                            Root |-> Reference(1, 0), Length |-> Integer(16),
                            Index |-> Array(<<Integer(5), Integer(4)>>),
                            W |-> Array(<<Integer(1), Integer(2), Integer(1)>>)],
                           Data(<<>>, << <<1, 6, 0>>, <<2, 5, 0>>, <<2, 5, 1>>, <<1, 7, 0>> >>))),
       StartXRefRec(7) >>

(* The references the calls of the store specification use. *)
UpdateRefs == {Ref(2, 256), Ref(3, 0), Ref(6, 0), Ref(9, 0), Ref(10, 0)}

GetRefs ==
    {Ref(0, 0), Ref(1, 0), Ref(2, 0), Ref(2, 256), Ref(3, 0), Ref(4, 1), Ref(6, 0),
     Ref(6, 1), Ref(7, 0), Ref(9, 0), Ref(10, 0), Ref(11, 0)}

(* The objects the calls register. *)
NewObjects == {Integer(100), Dict([K |-> Integer(1)])}

(* A reference is valid when Get resolves it; a created object is named by *)
(* the reference CreateObject returned, whose generation is 0.             *)
Pending(xr, n) == n >= 1 /\ n < Len(xr) /\ xr[n + 1].t \notin {"free", "direct", "objstm"}
ValidRef(xr, f, r) ==
    /\ Get(xr, f, r, MaxFuel).err = ""
    /\ Pending(xr, r.Number) => r.Generation = 0

NoRef == Ref(0, 0)
Ret(op, ref, res) == [op |-> op, ref |-> ref, res |-> res]
NoSnap == [taken |-> FALSE, xref |-> <<>>, flen |-> 0, updates |-> EmptyDict]
NoReader == [addr |-> 0, seen |-> <<>>, err |-> ""]

(* The history of SetField: the value each field was last set to with      *)
(* success, the calls made on the store in use (name, value, the dirty     *)
(* references before the call), and the number of the store in use.        *)
NoHist == [set |-> EmptyDict, calls |-> <<>>, store |-> 0]

(* The store is the one Open returned as o. *)
Loaded(o) ==
    /\ xref = o.xref
    /\ start = o.start
    /\ Info = o.Info
    /\ Catalog = o.Catalog
    /\ ret = Ret("Open", NoRef, Fail(o.err, 0))

(* The state after Open(f). *)
Opened(f) ==
    /\ file = f
    /\ Loaded(Open(f, FALSE))
    /\ updates = EmptyDict
    /\ snap = NoSnap
    /\ nops = 0
    /\ rd = NoReader
    /\ hist = NoHist

Init == Opened(StoreFile)

----------------------------------------------------------------------------
(* The calls of package pdfstruct. *)

CallGet(r) ==
    /\ ret' = Ret("Get", r, Get(xref, file, r, MaxFuel))
    /\ xref' = TableAfterGet(xref, r, Get(xref, file, r, MaxFuel).obj)
    /\ UNCHANGED <<file, start, Info, Catalog, updates, snap, nops, rd, hist>>

CallGetStream(r) ==
    /\ ret' = Ret("GetStream", r, GetStream(xref, file, r))
    /\ xref' = TableAfterGet(xref, r, Get(xref, file, r, MaxFuel).obj)
    /\ UNCHANGED <<file, start, Info, Catalog, updates, snap, nops, rd, hist>>

UpdateObject(upd, ref, obj) == Put(upd, ref, obj)

CallUpdateObject(r, obj) ==
    /\ nops < MaxOps
    /\ ValidRef(xref, file, r)
    /\ updates' = UpdateObject(updates, r, obj)
    /\ ret' = Ret("UpdateObject", r, Ok(obj, 0))
    /\ nops' = nops + 1
    /\ UNCHANGED <<file, xref, start, Info, Catalog, snap, rd, hist>>

(* CreateObject: the new reference, table and dirty set. *)
CreateObject(xr, upd, obj) ==
    [ref |-> Ref(Len(xr), 0), xref |-> Append(xr, obj), updates |-> Put(upd, Ref(Len(xr), 0), obj)]

CallCreateObject(obj) ==
    /\ nops < MaxOps
    /\ xref' = CreateObject(xref, updates, obj).xref
    /\ updates' = CreateObject(xref, updates, obj).updates
    /\ ret' = Ret("CreateObject", CreateObject(xref, updates, obj).ref, Ok(obj, 0))
    /\ nops' = nops + 1
    /\ UNCHANGED <<file, start, Info, Catalog, snap, rd, hist>>

CallWrite ==
    /\ nops < MaxOps
    /\ file' = Write(file, xref, Info, start, updates)
    /\ updates' = IF DOMAIN updates = {} THEN updates ELSE UpdatesAfterWrite(updates)
    /\ xref' = IF DOMAIN updates = {} THEN xref ELSE XRefAfterWrite(xref, updates)
    /\ snap' = [taken |-> TRUE, xref |-> xref, flen |-> Len(file), updates |-> updates]
    /\ ret' = Ret("Write", NoRef, Ok(Null, 0))
    /\ nops' = nops + 1
    /\ UNCHANGED <<start, Info, Catalog, rd, hist>>

(* The store becomes the one Open returned as o. *)
Reloaded(o) ==
    /\ xref' = o.xref
    /\ start' = o.start
    /\ Info' = o.Info
    /\ Catalog' = o.Catalog
    /\ ret' = Ret("Open", NoRef, Fail(o.err, 0))

(* A fresh Open of the file as it is now. *)
CallOpen ==
    /\ nops < MaxOps
    /\ ret.op = "Write"
    /\ Reloaded(Open(file, FALSE))
    /\ updates' = EmptyDict
    /\ nops' = nops + 1
    /\ hist' = [hist EXCEPT !.calls = <<>>, !.store = @ + 1]
    /\ UNCHANGED <<file, snap, rd>>

Next ==
    \/ \E r \in GetRefs : CallGet(r)
    \/ \E r \in GetRefs : CallGetStream(r)
    \/ \E r \in UpdateRefs, obj \in NewObjects : CallUpdateObject(r, obj)
    \/ \E obj \in NewObjects : CallCreateObject(obj)
    \/ CallWrite
    \/ CallOpen

Spec == Init /\ [][Next]_vars

----------------------------------------------------------------------------
(* Properties of the object store (specification Spec). *)

(* C1: after UpdateObject(ref, obj) or CreateObject(obj) returning ref, a  *)
(* Get(ref) made before any Write returns the object registered last for   *)
(* ref.                                                                    *)
C1_GetReturnsRegisteredObject ==
    (ret.op = "Get" /\ ~snap.taken /\ ret.ref \in DOMAIN updates)
        => (ret.res.err = "" /\ ret.res.obj = updates[ret.ref])

(* The file as it was before the last Write. *)
FileBeforeWrite == SubSeq(file, 1, snap.flen)

(* What Get(r) returned before the last Write, or should have: the object  *)
(* registered last for r, the object the store resolved r to otherwise.    *)
ValueBeforeWrite(r) ==
    IF r \in DOMAIN snap.updates THEN snap.updates[r]
    ELSE Get(snap.xref, FileBeforeWrite, r, MaxFuel).obj

(* C2: after updates and creations on valid references and a Write, a      *)
(* fresh Open of the file resolves every reference that resolved before    *)
(* the Write, with the same number and generation: to the object           *)
(* registered last when it was updated or created, to the same object as   *)
(* before otherwise.                                                       *)
C2_IncrementalWritePreservesHistory ==
    (ret.op = "Open" /\ snap.taken)
        => \A r \in GetRefs :
              ValidRef(snap.xref, FileBeforeWrite, r)
                  => /\ Get(xref, file, r, MaxFuel).err = ""
                     /\ Get(xref, file, r, MaxFuel).obj = ValueBeforeWrite(r)

(* The cases in which Get(r) on table xr is a reference error. *)
GetErrorCase(xr, r) ==
    \/ r.Number < 1
    \/ r.Number >= Len(xr)
    \/ xr[r.Number + 1].t = "free"
    \/ xr[r.Number + 1].t = "direct" /\ xr[r.Number + 1].gen # r.Generation
    \/ xr[r.Number + 1].t = "objstm" /\ r.Generation # 0

(* C5: Get(ref) with a number out of range, a Free slot, a Direct slot of  *)
(* another generation or an InObjectStream slot and a nonzero generation   *)
(* returns an error and no object, parses nothing and leaves the file, the *)
(* table and the dirty set as they were.                                   *)
C5_GetReferenceErrors ==
    [][(ret'.op = "Get" /\ GetErrorCase(xref, ret'.ref))
          => /\ ret'.res.err # ""
             /\ ret'.res.obj = Null
             /\ ret'.res.reads = 0
             /\ xref' = xref
             /\ updates' = updates
             /\ file' = file]_vars

(* A Get that failed on the generation of a Direct slot, after the store   *)
(* was changed.                                                            *)
C5_Witness ==
    /\ ret.op = "Get"
    /\ ret.res.err = "generation"
    /\ GetErrorCase(xref, ret.ref)
    /\ DOMAIN updates # {}

(* C10: every Stream that Get or GetStream returns is decoded: its         *)
(* dictionary has no /Filter and its data is the decoded payload.          *)
C10_ReturnedStreamsAreDecoded ==
    (ret.op \in {"Get", "GetStream"} /\ ret.res.err = "" /\ IsStream(ret.res.obj))
        => (~Has(ret.res.obj.d, "Filter") /\ ret.res.obj.data.enc = <<>>)

----------------------------------------------------------------------------
(* Specification XRefSpec: readXRef, one section per step, on files whose  *)
(* three sections (tables, xref streams, a hybrid table with /XRefStm) all *)
(* supply slots 0..2.  Section k marks its entries with k, so the section  *)
(* an entry came from can be told.                                         *)

MaxSlot == 2

(* What a section supplies: runs of consecutive slots, "f"ree or i"n" use. *)
Run(first, kinds) == [start |-> first, kinds |-> kinds]
Shapes ==
    { <<Run(0, <<"f", "n">>)>>,
      <<Run(1, <<"f", "n">>)>>,
      <<Run(0, <<"n">>), Run(2, <<"f">>)>>,
      <<Run(2, <<"n">>), Run(0, <<"n", "f">>)>> }

TableLine(kind, slot, k) ==
    IF kind = "n" THEN Line("n", 10 * k + slot, 0) ELSE Line("f", 0, k)
StreamRow(kind, slot, k) ==
    IF kind = "n" THEN <<1, 10 * k + slot, 0>> ELSE <<0, 0, k>>

RECURSIVE RunRows(_, _)
RunRows(shape, k) ==
    IF shape = <<>> THEN <<>>
    ELSE [i \in 1..Len(shape[1].kinds) |->
              StreamRow(shape[1].kinds[i], shape[1].start + i - 1, k)]
         \o RunRows(Tail(shape), k)

RECURSIVE RunIndex(_)
RunIndex(shape) ==
    IF shape = <<>> THEN <<>>
    ELSE <<Integer(shape[1].start), Integer(Len(shape[1].kinds))>> \o RunIndex(Tail(shape))

WithPrev(d, prev) == IF prev = 0 THEN d ELSE Put(d, "Prev", Integer(prev))

TableSection(shape, k, prev) ==
    TableRec([j \in 1..Len(shape) |->
                 Sub(shape[j].start,
                     [i \in 1..Len(shape[j].kinds) |->
                         TableLine(shape[j].kinds[i], shape[j].start + i - 1, k)])],
             WithPrev([Size |-> Integer(MaxSlot + 1), Root |-> Reference(1, 0)], prev))

StreamSection(shape, k, prev) ==
    ObjRec(9, 0,
           Stream(WithPrev([Type |-> Name("XRef"), Size |-> Integer(MaxSlot + 1),
                            Length |-> Integer(4 * Len(RunRows(shape, k))),
                            Root |-> Reference(1, 0),
                            Index |-> Array(RunIndex(shape)),
                            W |-> Array(<<Integer(1), Integer(2), Integer(1)>>)], prev),
                  Data(<<>>, RunRows(shape, k))))

(* A hybrid section: a table whose trailer names the stream at offset stm. *)
HybridSection(shape, k, prev, stm) ==
    [TableSection(shape, k, prev) EXCEPT !.trailer = Put(@, "XRefStm", Integer(stm))]

Section(kind, shape, k, prev) ==
    IF kind = "table" THEN TableSection(shape, k, prev)
    ELSE IF kind = "stream" THEN StreamSection(shape, k, prev)
    ELSE HybridSection(shape, k, prev, 3)

(* The oldest section at offset 1, the next at 2, the stream of a hybrid   *)
(* at 3, the newest section at 4.                                          *)
XRefFile(k1, s1, k2, s2, k3, s3) ==
    << Section(k3, s3, 3, 0),
       Section(k2, s2, 2, 1),
       StreamSection(<<Run(1, <<"n", "n">>)>>, 4, 0),
       Section(k1, s1, 1, 2),
       StartXRefRec(4) >>

XRefFiles ==
    { XRefFile(k1, s1, k2, s2, k3, s3) :
        k1 \in {"table", "stream", "hybrid"}, k2 \in {"table", "stream"},
        k3 \in {"table", "stream"}, s1 \in Shapes, s2 \in Shapes, s3 \in Shapes }

(* The entries a section supplies, in the order it is read, as pairs       *)
(* <<object number, entry>>.                                               *)
RECURSIVE TableSupplies(_)
TableSupplies(subs) ==
    IF subs = <<>> THEN <<>>
    ELSE [i \in 1..Len(subs[1].lines) |->
              <<subs[1].start + i - 1, TableEntry(subs[1].lines[i])>>]
         \o TableSupplies(Tail(subs))

StreamSupplies(o) ==
    [i \in 1..Len(o.data.raw) |->
        <<IndexNumbers(IntsOf(o.d["Index"]))[i], StreamEntry(o.data.raw[i], IntsOf(o.d["W"]))>>]

Supplies(f, addr) ==
    IF f[addr].t = "xreftab"
    THEN TableSupplies(f[addr].subs)
         \o (IF Has(f[addr].trailer, "XRefStm")
             THEN StreamSupplies(f[f[addr].trailer["XRefStm"].v].body) ELSE <<>>)
    ELSE StreamSupplies(f[addr].body)

(* The first entry supplied for object number n, Null when there is none.  *)
FirstSupplied(seen, n) ==
    IF \E i \in 1..Len(seen) : seen[i][1] = n
    THEN seen[CHOOSE i \in 1..Len(seen) :
                 seen[i][1] = n /\ \A j \in 1..(i - 1) : seen[j][1] # n][2]
    ELSE Null

XRefInit ==
    /\ file \in XRefFiles
    /\ xref = <<>>
    /\ start = readStartXRef(file).start
    /\ Info = EmptyDict
    /\ Catalog = EmptyDict
    /\ updates = EmptyDict
    /\ ret = Ret("readXRef", NoRef, Ok(Null, 0))
    /\ snap = NoSnap
    /\ nops = 0
    /\ rd = [addr |-> readStartXRef(file).start, seen |-> <<>>, err |-> ""]
    /\ hist = NoHist

(* One turn of the loop of readXRef: the section at rd.addr was read with  *)
(* result s.                                                               *)
SectionRead(s) ==
    /\ xref' = s.xr
    /\ Info' = s.info
    /\ rd' = [addr |-> IF s.err = "" THEN s.prev ELSE 0,
              seen |-> rd.seen \o Supplies(file, rd.addr),
              err |-> s.err]
    /\ UNCHANGED <<file, start, Catalog, updates, ret, snap, nops, hist>>

ReadTable ==
    /\ rd.addr # 0
    /\ file[rd.addr].t = "xreftab"
    /\ \E stmFirst \in BOOLEAN :
          SectionRead(readXRefSection(xref, Info, file, rd.addr, stmFirst))

ReadStream ==
    /\ rd.addr # 0
    /\ file[rd.addr].t = "obj"
    /\ SectionRead(readXRefSection(xref, Info, file, rd.addr, FALSE))

XRefNext == ReadTable \/ ReadStream

XRefSpec == XRefInit /\ [][XRefNext]_vars

(* C4: when several sections reached from startxref through /Prev supply   *)
(* an entry for one object number, the table holds the entry of the        *)
(* section read first; a populated slot, Free included, is never           *)
(* overwritten by a section read later.                                    *)
C4_XRefPrecedence ==
    [][/\ \A i \in 1..Len(xref) : xref[i] # Null => (Len(xref') >= i /\ xref'[i] = xref[i])
       /\ \A i \in 1..Len(xref') :
             xref'[i] # Null => xref'[i] = FirstSupplied(rd'.seen, i - 1)
       /\ rd'.err = "" =>
             \A n \in 0..MaxSlot :
                FirstSupplied(rd'.seen, n) # Null
                    => (Len(xref') > n /\ xref'[n + 1] = FirstSupplied(rd'.seen, n))]_vars

(* The whole chain was read, the newest section gave slot 1 a Free entry   *)
(* and an older section supplies an in-use entry for it.                   *)
C4_Witness ==
    /\ rd.addr = 0
    /\ rd.err = ""
    /\ Len(rd.seen) > 0
    /\ Len(xref) > 1
    /\ xref[2].t = "free"
    /\ \E i \in 1..Len(rd.seen) : rd.seen[i][1] = 1 /\ rd.seen[i][2].t = "direct"

----------------------------------------------------------------------------
(* Package pdfform. *)

Real(v) == [t |-> "real", v |-> v]
IsNum(o) == o.t \in {"int", "real"}

(* An entry that is either an object of type tag or a Reference to one:    *)
(* the "switch x := d[key].(type)" of the form code with a Reference case  *)
(* that calls Get and a case for the type itself.                          *)
Resolve(xr, f, o, tag) ==
    IF IsRef(o) THEN Expect(Get(xr, f, AsRef(o), MaxFuel), tag, "not a " \o tag)
    ELSE IF o.t = tag THEN Ok(o, 0)
    ELSE Fail("is not a " \o tag, 0)

(* The entry key of the dictionary r resolved to, resolved in turn. *)
ResolveIn(xr, f, r, key, tag) ==
    IF r.err # "" THEN r ELSE Resolve(xr, f, At(r.obj.d, key), tag)

(* strings.IndexByte(s, '.'): the position of the first dot, 0 for none. *)
RECURSIVE DotFrom(_, _)
DotFrom(s, i) ==
    IF i > Len(s) THEN 0
    ELSE IF SubSeq(s, i, i) = "." THEN i
    ELSE DotFrom(s, i + 1)

IndexDot(s) == DotFrom(s, 1)

(* The name getField builds along a path: "." and /T of every dictionary   *)
(* that has a /T.                                                          *)
RECURSIVE PathName(_)
PathName(path) ==
    IF path = <<>> THEN ""
    ELSE (IF IsStr(At(path[1], "T")) THEN "." \o path[1]["T"].v ELSE "")
         \o PathName(Tail(path))

(* The value: /V of the last dictionary of the path that has one. *)
RECURSIVE PathValue(_)
PathValue(path) ==
    IF path = <<>> THEN ""
    ELSE IF Has(path[Len(path)], "V") THEN path[Len(path)]["V"].v
    ELSE PathValue(SubSeq(path, 1, Len(path) - 1))

PathOk(path) ==
    \A i \in 1..Len(path) :
        /\ Has(path[i], "T") => IsStr(path[i]["T"])
        /\ Has(path[i], "V") => (IsStr(path[i]["V"]) \/ IsName(path[i]["V"]))

FieldsRes(e, fields) == [err |-> e, fields |-> fields]

(* The end of getField on a field without kids. *)
getFieldLeaf(fields, path) ==
    IF ~PathOk(path) THEN FieldsRes("path", fields)
    ELSE IF PathName(path) = "" THEN FieldsRes("", fields)
    ELSE FieldsRes("", Put(fields, SubSeq(PathName(path), 2, Len(PathName(path))),
                           PathValue(path)))

RECURSIVE getField(_, _, _, _, _, _)
RECURSIVE getFieldKids(_, _, _, _, _, _, _)
RECURSIVE getFieldKid(_, _, _, _, _, _, _)
RECURSIVE getFieldIn(_, _, _, _, _, _, _)
RECURSIVE getFieldDict(_, _, _, _, _, _)

(* The loop of getField over kids: r is the result so far. *)
getFieldKid(xr, f, r, kids, i, path, fuel) ==
    IF r.err # "" THEN r
    ELSE getFieldKids(xr, f, r.fields, kids, i + 1, path, fuel)

getFieldKids(xr, f, fields, kids, i, path, fuel) ==
    IF i > Len(kids) THEN FieldsRes("", fields)
    ELSE getFieldKid(xr, f, getField(xr, f, fields, kids[i], path, fuel), kids, i, path, fuel)

(* /Kids of a field: absent, an Array or a Reference to one. *)
KidsOf(xr, f, d) ==
    IF ~Has(d, "Kids") THEN Ok(Array(<<>>), 0) ELSE Resolve(xr, f, d["Kids"], "array")

(* getField on the field dictionary d whose kids were fetched. *)
getFieldIn(xr, f, fields, d, kids, path, fuel) ==
    IF kids.err # "" THEN FieldsRes("Kids", fields)
    ELSE IF Len(kids.obj.a) # 0
         THEN getFieldKids(xr, f, fields, kids.obj.a, 1, Append(path, d), fuel - 1)
    ELSE getFieldLeaf(fields, Append(path, d))

(* getField once the field dictionary was fetched as fd. *)
getFieldDict(xr, f, fields, fd, path, fuel) ==
    IF fd.err # "" THEN FieldsRes(fd.err, fields)
    ELSE getFieldIn(xr, f, fields, fd.obj.d, KidsOf(xr, f, fd.obj.d), path, fuel)

(* getField: the fields below obj added to fields.  fuel bounds the depth  *)
(* of the field tree.                                                      *)
getField(xr, f, fields, obj, path, fuel) ==
    IF fuel = 0 THEN FieldsRes("diverges", fields)
    ELSE getFieldDict(xr, f, fields, Resolve(xr, f, obj, "dict"), path, fuel)

(* The AcroForm dictionary of the catalog. *)
FormOf(xr, f, cat) ==
    IF ~Has(cat, "AcroForm") THEN Ok(Null, 0)
    ELSE Resolve(xr, f, cat["AcroForm"], "dict")

(* GetFields once the form dictionary was fetched. *)
GetFieldsIn(xr, f, form) ==
    IF form.err # "" THEN FieldsRes(form.err, EmptyDict)
    ELSE IF form.obj = Null \/ ~Has(form.obj.d, "Fields") THEN FieldsRes("", EmptyDict)
    ELSE IF ~IsArray(form.obj.d["Fields"]) THEN FieldsRes("Fields is not an Array", EmptyDict)
    ELSE getFieldKids(xr, f, EmptyDict, form.obj.d["Fields"].a, 1, <<>>, MaxFuel)

(* GetFields returns no map with an error. *)
GetFieldsOut(r) == IF r.err # "" THEN FieldsRes(r.err, EmptyDict) ELSE r

(* GetFields: the map from field name to value. *)
GetFields(xr, f, cat) == GetFieldsOut(GetFieldsIn(xr, f, FormOf(xr, f, cat)))

----------------------------------------------------------------------------
(* SetField and the setters.  A setter gets the table and the dirty set    *)
(* and returns them as the call leaves them, with its error.               *)

SRes(e, xr, upd) == [err |-> e, xref |-> xr, updates |-> upd]

(* The dictionary Get(ref) returned was changed in place to d and passed   *)
(* to UpdateObject(ref, d).  A dictionary parsed from the file is a copy   *)
(* of its own; the dictionary of a pending slot is the one the table       *)
(* holds, so the table shows the change too.                               *)
StoreDict(xr, upd, ref, d) ==
    SRes("",
         IF Pending(xr, ref.Number) /\ IsDict(xr[ref.Number + 1])
         THEN [xr EXCEPT ![ref.Number + 1] = Dict(d)] ELSE xr,
         UpdateObject(upd, ref, Dict(d)))

(* flags & (1 << b) != 0 *)
Bit(flags, b) == (flags \div (2 ^ b)) % 2 = 1

setCheckbox(xr, upd, fieldref, field, value) ==
    IF value = "Off"
    THEN IF ~Has(field, "V") \/ field["V"] = Name("Off") THEN SRes("", xr, upd)
         ELSE StoreDict(xr, upd, fieldref, Put(Del(field, "V"), "AS", Name("Off")))
    ELSE IF value = "Yes"
    THEN IF At(field, "V") = Name("Yes") THEN SRes("", xr, upd)
         ELSE StoreDict(xr, upd, fieldref, Put(Put(field, "V", Name("Yes")), "AS", Name("Yes")))
    ELSE SRes("value is not valid for field", xr, upd)

RECURSIVE radioKids(_, _, _, _, _, _, _, _, _)

(* One turn of the loop of setRadioButton over the kids: kid is the kid's  *)
(* dictionary and apn its /AP /N dictionary, as fetched.  A kid that has   *)
(* an appearance named value gets /AS value; another gets /AS /Off unless  *)
(* it has it.  A kid given inline sits in the parent's dictionary.         *)
radioKid(xr, upd, f, fieldref, field, kids, i, value, found, kid, apn) ==
    IF kid.err # "" THEN SRes(kid.err, xr, upd)
    ELSE IF apn.err # "" THEN SRes(apn.err, xr, upd)
    ELSE LET has == Has(apn.obj.d, value)
             kid2 == Put(kid.obj.d, "AS", IF has THEN Name(value) ELSE Name("Off"))
             field2 == IF IsArray(At(field, "Kids"))
                       THEN Put(field, "Kids", Array([field["Kids"].a EXCEPT ![i] = Dict(kid2)]))
                       ELSE field
             s == IF ~has /\ At(kid.obj.d, "AS") = Name("Off") THEN SRes("", xr, upd)
                  ELSE IF ~IsRef(kids[i]) THEN StoreDict(xr, upd, fieldref, field2)
                  ELSE IF AsRef(kids[i]) = fieldref THEN SRes("", xr, upd)
                  ELSE StoreDict(xr, upd, AsRef(kids[i]), kid2)
         IN  radioKids(s.xref, s.updates, f, fieldref,
                       IF ~IsRef(kids[i]) /\ (has \/ At(kid.obj.d, "AS") # Name("Off"))
                       THEN field2 ELSE field,
                       kids, i + 1, value, found \/ has)

radioKids(xr, upd, f, fieldref, field, kids, i, value, found) ==
    IF i > Len(kids)
    THEN SRes(IF found THEN "" ELSE "value is not valid for field", xr, upd)
    ELSE radioKid(xr, upd, f, fieldref, field, kids, i, value, found,
                  Resolve(xr, f, kids[i], "dict"),
                  ResolveIn(xr, f, ResolveIn(xr, f, Resolve(xr, f, kids[i], "dict"),
                                             "AP", "dict"), "N", "dict"))

(* setRadioButton after the parent was stored as s: kids is its /Kids. *)
setRadioStored(s, f, fieldref, field, value, kids) ==
    IF kids.err # "" THEN SRes(kids.err, s.xref, s.updates)
    ELSE radioKids(s.xref, s.updates, f, fieldref, field, kids.obj.a, 1, value, value = "Off")

(* setRadioButton with the parent's new dictionary field2. *)
setRadioParent(xr, upd, f, fieldref, field2, value) ==
    setRadioStored(StoreDict(xr, upd, fieldref, field2), f, fieldref, field2, value,
                   Resolve(StoreDict(xr, upd, fieldref, field2).xref, f,
                           At(field2, "Kids"), "array"))

setRadioButton(xr, upd, f, fieldref, field, value) ==
    IF At(field, "V") = Name(value) THEN SRes("", xr, upd)
    ELSE setRadioParent(xr, upd, f, fieldref,
                        IF value = "Off" THEN Del(field, "V") ELSE Put(field, "V", Name(value)),
                        value)

(* setChoice after the field was stored as s: the type assertion on /Ff    *)
(* panics when /Ff is not an int.                                          *)
setChoiceStored(s, f, field, value, opts) ==
    IF ~IsInt(At(field, "Ff")) THEN SRes("panic", s.xref, s.updates)
    ELSE IF Bit(field["Ff"].v, ComboBit) \/ Bit(field["Ff"].v, EditBit)
         THEN SRes("", s.xref, s.updates)
    ELSE IF opts.err # "" THEN SRes(opts.err, s.xref, s.updates)
    ELSE IF \E i \in 1..Len(opts.obj.a) : opts.obj.a[i] = Str(value)
         THEN SRes("", s.xref, s.updates)
    ELSE SRes("value is not valid for field", s.xref, s.updates)

setChoice(xr, upd, f, fieldref, field, value) ==
    IF At(field, "V") = Str(value) THEN SRes("", xr, upd)
    ELSE setChoiceStored(StoreDict(xr, upd, fieldref, Put(field, "V", Str(value))), f,
                         field, value, Resolve(xr, f, At(field, "Opts"), "array"))

(* The test of the radio flag and of /Kids made before the push-button test. *)
setButton_RadioFirst(xr, upd, f, fieldref, field, value) ==
    IF Has(field, "Ff") /\ ~IsInt(field["Ff"]) THEN SRes("field[Ff] is not an int", xr, upd)
    ELSE LET flags == IF Has(field, "Ff") THEN field["Ff"].v ELSE 0 IN
         IF Bit(flags, RadioBit) \/ Has(field, "Kids")
         THEN setRadioButton(xr, upd, f, fieldref, field, value)
         ELSE IF Bit(flags, PushButtonBit) THEN SRes("field is a push button", xr, upd)
         ELSE setCheckbox(xr, upd, fieldref, field, value)

setButton(xr, upd, f, fieldref, field, value) ==
    IF Has(field, "Ff") /\ ~IsInt(field["Ff"]) THEN SRes("field[Ff] is not an int", xr, upd)
    ELSE LET flags == IF Has(field, "Ff") THEN field["Ff"].v ELSE 0 IN
         IF Bit(flags, PushButtonBit) THEN SRes("field is a push button", xr, upd)
         ELSE IF Bit(flags, RadioBit) \/ Has(field, "Kids")
              THEN setRadioButton(xr, upd, f, fieldref, field, value)
         ELSE setCheckbox(xr, upd, fieldref, field, value)

----------------------------------------------------------------------------
(* Text fields. *)

(* textDAFontRE on the default appearances the model uses: the font name   *)
(* and size of "/name size Tf", no match otherwise.                        *)
textDAFont(da) ==
    IF da = "/Helv 12 Tf" THEN [ok |-> TRUE, name |-> "Helv", size |-> 12]
    ELSE IF da = "/Helv 0 Tf" THEN [ok |-> TRUE, name |-> "Helv", size |-> 0]
    ELSE [ok |-> FALSE, name |-> "", size |-> 0]

FontRes(e, name, size) == [err |-> e, name |-> name, size |-> size]

(* textFontNameSize once /DA was fetched as da. *)
textFontOf(da, defaultSize) ==
    IF da.err # "" THEN FontRes(da.err, "", 0)
    ELSE IF ~textDAFont(da.obj.v).ok
         THEN FontRes("field[DA] does not contain a font setting", "", 0)
    ELSE FontRes("", textDAFont(da.obj.v).name,
                 IF textDAFont(da.obj.v).size = 0 THEN defaultSize
                 ELSE textDAFont(da.obj.v).size)

textFontNameSize(xr, f, field, defaultSize) ==
    textFontOf(Resolve(xr, f, At(field, "DA"), "string"), defaultSize)

(* textResourcesFont once /DR /Font of the form was fetched as font. *)
textFontRef(font, fontName) ==
    IF font.err # "" THEN Fail(font.err, 0)
    ELSE IF ~IsRef(At(font.obj.d, fontName)) THEN Fail("font is not a Reference", 0)
    ELSE Ok(font.obj.d[fontName], 0)

textResourcesFont(xr, f, form, fontName) ==
    textFontRef(
        ResolveIn(xr, f, Resolve(xr, f, At(form, "DR"), "dict"), "Font", "dict"), fontName)

(* textBBox once /Rect was fetched as rect: the bounding box, as an Array  *)
(* of four numbers.                                                        *)
textBBoxOf(rect) ==
    IF rect.err # "" THEN rect
    ELSE IF Len(rect.obj.a) # 4 THEN Fail("widget[Rect] is not an Array of length 4", 0)
    ELSE IF \E i \in 1..4 : ~IsNum(rect.obj.a[i])
         THEN Fail("widget[Rect] is not an Array of 4 numbers", 0)
    ELSE Ok(Array(<<Real(0), Real(0), Real(rect.obj.a[3].v - rect.obj.a[1].v),
                    Real(rect.obj.a[4].v - rect.obj.a[2].v)>>), 0)

textBBox(xr, f, widget) == textBBoxOf(Resolve(xr, f, At(widget, "Rect"), "array"))

(* encodeString of package pdfform: a backslash before CR (written r), a   *)
(* backslash and the parentheses; the whole in parentheses.                *)
RECURSIVE textEscape(_, _)
textEscape(str, i) ==
    IF i > Len(str) THEN ""
    ELSE (IF SubSeq(str, i, i) = "\r" THEN "\\r"
          ELSE IF SubSeq(str, i, i) \in {"\\", "(", ")"} THEN "\\" \o SubSeq(str, i, i)
          ELSE SubSeq(str, i, i))
         \o textEscape(str, i + 1)

textEncodeString(str) == "(" \o textEscape(str, 1) \o ")"

(* strings.Split(value, "\n") *)
RECURSIVE SplitLines(_, _, _)
SplitLines(str, i, from) ==
    IF i > Len(str) THEN <<SubSeq(str, from, Len(str))>>
    ELSE IF SubSeq(str, i, i) = "\n"
         THEN <<SubSeq(str, from, i - 1)>> \o SplitLines(str, i + 1, i + 1)
    ELSE SplitLines(str, i + 1, from)

(* textCStream: the content stream, as its operands: the clip rectangle,   *)
(* the font and its size, and the strings shown, one per line when the     *)
(* box has room for two lines (bbox[3] >= 2.35*fontSize + 4).              *)
textCStream(bbox, value, fontName, fontSize) ==
    LET multiline == 100 * bbox.a[4].v >= 235 * fontSize + 400 IN
    Data(<<>>,
         <<[w |-> bbox.a[3].v - 2, h |-> bbox.a[4].v - 2, font |-> fontName,
            size |-> fontSize, multiline |-> multiline,
            Tj |-> IF multiline
                   THEN [i \in 1..Len(SplitLines(value, 1, 1)) |->
                            textEncodeString(SplitLines(value, 1, 1)[i])]
                   ELSE <<textEncodeString(value)>>]>>)

(* The appearance stream textAPN builds. *)
textAPNStream(bbox, fontName, fontRef, cstream) ==
    Stream([Type |-> Name("XObject"), Subtype |-> Name("Form"), BBox |-> bbox,
            Resources |-> Dict([Font |-> Dict(Put(EmptyDict, fontName, fontRef)),
                                ProcSet |-> Array(<<Name("PDF"), Name("Text")>>)])],
           cstream)

(* The widget's /AP /N becomes the new object CreateObject(apn) returns;   *)
(* the widget, changed in place, goes to UpdateObject.                     *)
textAPNew(xr, upd, widgetref, widget, apn) ==
    StoreDict(CreateObject(xr, upd, apn).xref, CreateObject(xr, upd, apn).updates, widgetref,
              Put(widget, "AP", Dict([N |-> Reference(Len(xr), 0)])))

(* /AP is a Reference to the dictionary ap. *)
textAPRef(xr, upd, apref, ap, apn) ==
    IF ap.err # "" THEN SRes(ap.err, xr, upd)
    ELSE IF IsRef(At(ap.obj.d, "N"))
         THEN SRes("", xr, UpdateObject(upd, AsRef(ap.obj.d["N"]), apn))
    ELSE StoreDict(CreateObject(xr, upd, apn).xref, CreateObject(xr, upd, apn).updates, apref,
                   Put(ap.obj.d, "N", Reference(Len(xr), 0)))

(* /AP is a dictionary of the widget: a new /N is put into it in place,    *)
(* with no UpdateObject for the widget.                                    *)
textAPDict(xr, upd, widgetref, widget, apn) ==
    IF IsRef(At(widget["AP"].d, "N"))
    THEN SRes("", xr, UpdateObject(upd, AsRef(widget["AP"].d["N"]), apn))
    ELSE LET c == CreateObject(xr, upd, apn)
             w2 == Dict(Put(widget, "AP", Dict(Put(widget["AP"].d, "N", Reference(Len(xr), 0)))))
         IN  SRes("",
                  IF Pending(xr, widgetref.Number) /\ IsDict(xr[widgetref.Number + 1])
                  THEN [c.xref EXCEPT ![widgetref.Number + 1] = w2] ELSE c.xref,
                  IF widgetref \in DOMAIN upd /\ upd[widgetref] = Dict(widget)
                  THEN Put(c.updates, widgetref, w2) ELSE c.updates)

textAPN(xr, upd, f, widgetref, widget, apn) ==
    IF ~Has(widget, "AP") THEN textAPNew(xr, upd, widgetref, widget, apn)
    ELSE IF IsRef(widget["AP"])
         THEN textAPRef(xr, upd, AsRef(widget["AP"]),
                        Expect(Get(xr, f, AsRef(widget["AP"]), MaxFuel), "dict", "not a Dict"), apn)
    ELSE IF IsDict(widget["AP"]) THEN textAPDict(xr, upd, widgetref, widget, apn)
    ELSE SRes("widget[AP] is not a Dict", xr, upd)

RECURSIVE setTextKids(_, _, _, _, _, _, _, _)

(* The loop of setText goes on after textAPN returned s. *)
setTextNext(s, f, fieldref, kids, i, value, font) ==
    IF s.err # "" THEN s
    ELSE setTextKids(s.xref, s.updates, f, fieldref, kids, i + 1, value, font)

(* One widget of the text field: its bounding box was computed as bbox. *)
setTextWidget(xr, upd, f, fieldref, kids, i, value, font, widget, bbox) ==
    IF bbox.err # "" THEN SRes(bbox.err, xr, upd)
    ELSE setTextNext(
            textAPN(xr, upd, f, AsRef(kids[i]), widget,
                    textAPNStream(bbox.obj, font.name, font.ref,
                                  textCStream(bbox.obj, value, font.name, font.size))),
            f, fieldref, kids, i, value, font)

(* One turn of the loop of setText: kid is the widget as fetched. *)
setTextKid(xr, upd, f, fieldref, kids, i, value, font, kid) ==
    IF kid.err # "" THEN SRes(kid.err, xr, upd)
    ELSE setTextWidget(xr, upd, f, fieldref, kids, i, value, font, kid.obj.d,
                       textBBox(xr, f, kid.obj.d))

(* The loop of setText over the widgets; the field itself, when it is its  *)
(* own widget, is the dictionary that was passed to UpdateObject.          *)
setTextKids(xr, upd, f, fieldref, kids, i, value, font) ==
    IF i > Len(kids) THEN SRes("", xr, upd)
    ELSE IF ~IsRef(kids[i]) THEN SRes("field[Kids] element is not a Reference", xr, upd)
    ELSE setTextKid(xr, upd, f, fieldref, kids, i, value, font,
                    IF AsRef(kids[i]) = fieldref THEN Ok(upd[fieldref], 0)
                    ELSE Expect(Get(xr, f, AsRef(kids[i]), MaxFuel), "dict", "not a Dict"))

(* setText once the font and the widgets were looked up. *)
setTextFont(s, f, fieldref, value, font, fontRef, kids) ==
    IF font.err # "" THEN SRes(font.err, s.xref, s.updates)
    ELSE IF fontRef.err # "" THEN SRes(fontRef.err, s.xref, s.updates)
    ELSE IF kids.err # "" THEN SRes(kids.err, s.xref, s.updates)
    ELSE setTextKids(s.xref, s.updates, f, fieldref, kids.obj.a, 1, value,
                     [name |-> font.name, size |-> font.size, ref |-> fontRef.obj])

(* setText after the field, with its new /V, was stored as s. *)
setTextStored(s, f, form, field2, fieldref, value, fontSize) ==
    setTextFont(s, f, fieldref, value,
                textFontNameSize(s.xref, f, field2, fontSize),
                textResourcesFont(s.xref, f, form,
                                  textFontNameSize(s.xref, f, field2, fontSize).name),
                IF ~Has(field2, "Kids") THEN Ok(Array(<<Reference(fieldref.Number,
                                                                 fieldref.Generation)>>), 0)
                ELSE Resolve(s.xref, f, field2["Kids"], "array"))

setText(xr, upd, f, form, field, fieldref, value, fontSize) ==
    IF At(field, "V") = Str(value) THEN SRes("", xr, upd)
    ELSE setTextStored(StoreDict(xr, upd, fieldref, Put(field, "V", Str(value))), f, form,
                       Put(field, "V", Str(value)), fieldref, value, fontSize)

----------------------------------------------------------------------------
(* SetField. *)

RECURSIVE setFieldLoop(_, _, _, _, _, _, _, _, _)

(* The field named has kids to look the rest of the name up in. *)
setFieldDescend(xr, upd, f, form, kids, name, value, fontSize) ==
    IF kids.err # "" THEN SRes("expected hierarchical parent", xr, upd)
    ELSE setFieldLoop(xr, upd, f, form, kids.obj.a, 1, name, value, fontSize)

(* The field named was found: the setter of its type. *)
setFieldType(xr, upd, f, form, fieldref, field, value, fontSize) ==
    IF ~IsName(At(field, "FT")) THEN SRes("FT is not a Name", xr, upd)
    ELSE IF field["FT"].v = "Btn" THEN setButton(xr, upd, f, fieldref, field, value)
    ELSE IF field["FT"].v = "Tx"
         THEN setText(xr, upd, f, form, field, fieldref, value, fontSize)
    ELSE IF field["FT"].v = "Ch" THEN setChoice(xr, upd, f, fieldref, field, value)
    ELSE SRes("field type is not supported", xr, upd)

(* One turn of the loop of SetField: field is element i as fetched. *)
setFieldAt(xr, upd, f, form, fields, i, name, value, fontSize, field) ==
    IF field.err # "" THEN SRes(field.err, xr, upd)
    ELSE IF ~IsStr(At(field.obj.d, "T")) THEN SRes("T is not a string", xr, upd)
    ELSE IF field.obj.d["T"].v #
              (IF IndexDot(name) > 0 THEN SubSeq(name, 1, IndexDot(name) - 1) ELSE name)
         THEN setFieldLoop(xr, upd, f, form, fields, i + 1, name, value, fontSize)
    ELSE IF IndexDot(name) > 0
         THEN setFieldDescend(xr, upd, f, form,
                              Resolve(xr, f, At(field.obj.d, "Kids"), "array"),
                              SubSeq(name, IndexDot(name) + 1, Len(name)), value, fontSize)
    ELSE setFieldType(xr, upd, f, form, AsRef(fields[i]), field.obj.d, value, fontSize)

setFieldLoop(xr, upd, f, form, fields, i, name, value, fontSize) ==
    IF i > Len(fields) THEN SRes("no such field in form", xr, upd)
    ELSE IF ~IsRef(fields[i]) THEN SRes("Fields element is not a Reference", xr, upd)
    ELSE setFieldAt(xr, upd, f, form, fields, i, name, value, fontSize,
                    Expect(Get(xr, f, AsRef(fields[i]), MaxFuel), "dict", "not a Dict"))

(* SetField once the form and its /Fields were fetched. *)
SetFieldIn(xr, upd, f, form, fields, name, value, fontSize) ==
    IF form.err # "" THEN SRes(form.err, xr, upd)
    ELSE IF fields.err # "" THEN SRes(fields.err, xr, upd)
    ELSE setFieldLoop(xr, upd, f, form.obj.d, fields.obj.a, 1, name, value, fontSize)

SetField(xr, upd, f, cat, name, value, fontSize) ==
    SetFieldIn(xr, upd, f,
               Resolve(xr, f, At(cat, "AcroForm"), "dict"),
               ResolveIn(xr, f, Resolve(xr, f, At(cat, "AcroForm"), "dict"), "Fields", "array"),
               name, value, fontSize)

----------------------------------------------------------------------------
(* ClonePage.  The cloning functions get the table, the dirty set and the  *)
(* map of clones and return them with the clone.                           *)

CRes(e, xr, upd, clones, obj) ==
    [err |-> e, xref |-> xr, updates |-> upd, clones |-> clones, obj |-> obj]

(* The keys of a dictionary in the order they are visited.  The order of a *)
(* map iteration only decides which numbers new objects get when two keys  *)
(* lead to objects that are not cloned yet.                                *)
RECURSIVE KeySeq(_)
KeySeq(ks) ==
    IF ks = {} THEN <<>>
    ELSE <<CHOOSE k \in ks : TRUE>> \o KeySeq(ks \ {CHOOSE k \in ks : TRUE})

RECURSIVE cloneObject(_, _, _, _, _)
RECURSIVE cloneArrayFrom(_, _, _, _, _)
RECURSIVE cloneDictFrom(_, _, _, _, _)

(* cloneArray: r is the result for the element before i, acc the clones    *)
(* of the elements before that one.                                        *)
cloneArrayAdd(r, f, old, i, acc) == cloneArrayFrom(r, f, old, i + 1, Append(acc, r.obj))

cloneArrayFrom(r, f, old, i, acc) ==
    IF r.err # "" THEN r
    ELSE IF i > Len(old) THEN [r EXCEPT !.obj = Array(acc)]
    ELSE cloneArrayAdd(cloneObject(r.xref, r.updates, f, r.clones, old[i]), f, old, i, acc)

cloneArray(xr, upd, f, clones, old) ==
    cloneArrayFrom(CRes("", xr, upd, clones, Null), f, old.a, 1, <<>>)

(* cloneDict: acc holds the entries cloned so far; r is the result for the *)
(* last of them.                                                           *)
cloneDictAdd(r, f, old, keys, acc) ==
    IF r.err # "" THEN [r EXCEPT !.obj = Dict(acc)]
    ELSE cloneDictFrom(r, f, old, Tail(keys), Put(acc, Head(keys), r.obj))

cloneDictFrom(r, f, old, keys, acc) ==
    IF keys = <<>> THEN [r EXCEPT !.obj = Dict(acc)]
    ELSE cloneDictAdd(cloneObject(r.xref, r.updates, f, r.clones, old[Head(keys)]),
                      f, old, keys, acc)

cloneDict(xr, upd, f, clones, old) ==
    cloneDictFrom(CRes("", xr, upd, clones, Null), f, old, KeySeq(DOMAIN old), EmptyDict)

(* cloneStream: the data is shared, the dictionary cloned. *)
cloneStreamOf(r, data) ==
    IF r.err # "" THEN r ELSE [r EXCEPT !.obj = Stream(r.obj.d, data)]

cloneStream(xr, upd, f, clones, old) == cloneStreamOf(cloneDict(xr, upd, f, clones, old.d), old.data)

(* cloneReference after the clone r of the object was made: the new        *)
(* reference nr is given the clone with UpdateObject; its slot in the      *)
(* table stays nil.                                                        *)
cloneReferenceDone(r, nr) ==
    IF r.err # "" THEN r
    ELSE CRes("", r.xref, UpdateObject(r.updates, nr, r.obj), r.clones,
              Reference(nr.Number, nr.Generation))

(* cloneReference after Get(old) returned oo. *)
cloneReferenceGot(xr, upd, f, clones, old, oo) ==
    IF oo.err # "" THEN CRes(oo.err, xr, upd, clones, Null)
    ELSE cloneReferenceDone(
            cloneObject(CreateObject(xr, upd, Null).xref, CreateObject(xr, upd, Null).updates, f,
                        Put(clones, old, Ref(Len(xr), 0)), oo.obj),
            Ref(Len(xr), 0))

cloneReference(xr, upd, f, clones, old) ==
    IF old \in DOMAIN clones
    THEN CRes("", xr, upd, clones, Reference(clones[old].Number, clones[old].Generation))
    ELSE cloneReferenceGot(xr, upd, f, clones, old, Get(xr, f, old, MaxFuel))

cloneObject(xr, upd, f, clones, old) ==
    IF IsArray(old) THEN cloneArray(xr, upd, f, clones, old)
    ELSE IF IsDict(old) THEN cloneDict(xr, upd, f, clones, old.d)
    ELSE IF IsStream(old) THEN cloneStream(xr, upd, f, clones, old)
    ELSE IF IsRef(old) THEN cloneReference(xr, upd, f, clones, AsRef(old))
    ELSE CRes("", xr, upd, clones, old)

(* What clonePage returns, with the table and the dirty set as it leaves   *)
(* them.  A slice expression out of range stops the call where it stands   *)
(* (err "panic").                                                          *)
PRes(e, xr, upd, newPage, newPageRef, oldPageRef) ==
    [err |-> e, xref |-> xr, updates |-> upd, newPage |-> newPage,
     newPageRef |-> newPageRef, oldPageRef |-> oldPageRef]

(* A dictionary made by CreateObject and changed in place afterwards: the  *)
(* table and the dirty set hold that same dictionary.                      *)
SetSlot(xr, ref, d) == [xr EXCEPT ![ref.Number + 1] = Dict(d)]

(* clonePage once the entries of the old page other than Annots are cloned *)
(* into the new page (r).                                                  *)
clonePageDone(r, newPageRef, oldPageRef) ==
    PRes(r.err, SetSlot(r.xref, newPageRef, r.obj.d), Put(r.updates, newPageRef, r.obj),
         r.obj.d, newPageRef, oldPageRef)

(* clonePage after GetDict(oldPageRef) returned g. *)
clonePageOld(xr, upd, f, pagesRef, newPageRef, oldPageRef, g) ==
    IF g.err # "" THEN PRes(g.err, xr, upd, EmptyDict, newPageRef, oldPageRef)
    ELSE clonePageDone(
            cloneDictFrom(CRes("", xr, upd, Put(Put(EmptyDict, oldPageRef, newPageRef), pagesRef, pagesRef), Null),
                          f, g.obj.d, KeySeq(DOMAIN g.obj.d \ {"Annots"}), EmptyDict),
            newPageRef, oldPageRef)

(* clonePage after UpdateObject(pagesRef, pages): kids is the array with   *)
(* the new page in it.                                                     *)
clonePageCopy(xr, upd, f, pagesRef, newPageRef, kids, pagenum) ==
    IF pagenum > Len(kids) - 2
    THEN PRes("not that many pages", xr, upd, EmptyDict, newPageRef, NoRef)
    ELSE IF ~IsRef(kids[pagenum + 1])
    THEN PRes("Pages/Kids/# is not a reference", xr, upd, EmptyDict, newPageRef, NoRef)
    ELSE clonePageOld(xr, upd, f, pagesRef, newPageRef, AsRef(kids[pagenum + 1]),
                      GetDict(xr, f, AsRef(kids[pagenum + 1])))

(* copy(kids[pagenum+2:], kids[pagenum+1:]); kids[pagenum+1] = newPageRef  *)
(* on the array k with one nil appended.                                   *)
InsertKid(k, pagenum, newPageRef) ==
    SubSeq(k, 1, pagenum + 1) \o <<Reference(newPageRef.Number, newPageRef.Generation)>>
        \o SubSeq(k, pagenum + 2, Len(k))

(* clonePage when Pages/Kids is an Array k. *)
clonePageArray(xr, upd, f, pagesRef, pages, k, newPageRef, pagenum) ==
    IF pagenum + 2 > Len(k) + 1
    THEN PRes("panic", xr, upd, EmptyDict, newPageRef, NoRef)
    ELSE clonePageCopy(xr,
                       UpdateObject(upd, pagesRef,
                                    Dict(Put(pages, "Kids", Array(InsertKid(k, pagenum, newPageRef))))),
                       f, pagesRef, newPageRef, InsertKid(k, pagenum, newPageRef), pagenum)

(* clonePage when Pages/Kids is a Reference kr and GetArray(kr) returned g. *)
clonePageRef(xr, upd, f, pagesRef, pages, kr, g, newPageRef, pagenum) ==
    IF g.err # "" THEN PRes(g.err, xr, upd, EmptyDict, newPageRef, NoRef)
    ELSE IF pagenum + 2 > Len(g.obj.a) + 1
    THEN PRes("panic", xr, UpdateObject(upd, kr, Array(Append(g.obj.a, Null))),
              EmptyDict, newPageRef, NoRef)
    ELSE clonePageCopy(xr,
                       UpdateObject(UpdateObject(upd, kr, Array(InsertKid(g.obj.a, pagenum, newPageRef))),
                                    pagesRef, Dict(pages)),
                       f, pagesRef, newPageRef, InsertKid(g.obj.a, pagenum, newPageRef), pagenum)

(* clonePage after the new page was created; pages has its Count raised. *)
clonePageKids(xr, upd, f, pagesRef, pages, newPageRef, pagenum) ==
    IF Has(pages, "Kids") /\ IsArray(pages["Kids"])
    THEN clonePageArray(xr, upd, f, pagesRef, pages, pages["Kids"].a, newPageRef, pagenum)
    ELSE IF Has(pages, "Kids") /\ IsRef(pages["Kids"])
    THEN clonePageRef(xr, upd, f, pagesRef, pages, AsRef(pages["Kids"]),
                      GetArray(xr, f, AsRef(pages["Kids"])), newPageRef, pagenum)
    ELSE PRes("Pages/Kids is not an Array", xr, upd, EmptyDict, newPageRef, NoRef)

(* clonePage after GetDict(pagesRef) returned g. *)
clonePagePages(xr, upd, f, pagesRef, g, pagenum) ==
    IF g.err # "" THEN PRes(g.err, xr, upd, EmptyDict, NoRef, NoRef)
    ELSE IF ~(Has(g.obj.d, "Count") /\ IsInt(g.obj.d["Count"]))
    THEN PRes("Pages/Count is not an int", xr, upd, EmptyDict, NoRef, NoRef)
    ELSE clonePageKids(CreateObject(xr, upd, Dict(EmptyDict)).xref,
                       CreateObject(xr, upd, Dict(EmptyDict)).updates, f, pagesRef,
                       Put(g.obj.d, "Count", Integer(g.obj.d["Count"].v + 1)),
                       Ref(Len(xr), 0), pagenum)

clonePage(xr, upd, f, cat, pagenum) ==
    IF ~(Has(cat, "Pages") /\ IsRef(cat["Pages"]))
    THEN PRes("/Pages is not a reference", xr, upd, EmptyDict, NoRef, NoRef)
    ELSE clonePagePages(xr, upd, f, AsRef(cat["Pages"]), GetDict(xr, f, AsRef(cat["Pages"])), pagenum)

(* What newFieldList returns: the top-level field list with the new field  *)
(* in it and the reference of the new field.                               *)
LRes(e, xr, upd, fields, newFieldRef) ==
    [err |-> e, xref |-> xr, updates |-> upd, fields |-> fields, newFieldRef |-> newFieldRef]

(* newFieldList when AcroForm/Fields is a Reference fr and GetArray(fr)    *)
(* returned g.                                                             *)
newFieldListRef(xr, upd, fr, g, nr) ==
    IF g.err # "" THEN LRes(g.err, xr, upd, <<>>, nr)
    ELSE LRes("", xr,
              UpdateObject(upd, fr, Array(Append(g.obj.a, Reference(nr.Number, nr.Generation)))),
              Append(g.obj.a, Reference(nr.Number, nr.Generation)), nr)

(* newFieldList when AcroForm/Fields is an Array: sd is the store after    *)
(* UpdateObject(formref, form).                                            *)
newFieldListArray(sd, fields, nr) == LRes("", sd.xref, sd.updates, fields, nr)

(* newFieldList after the new field nr was created. *)
newFieldListAdd(xr, upd, f, formref, form, nr) ==
    IF Has(form, "Fields") /\ IsArray(form["Fields"])
    THEN newFieldListArray(
            StoreDict(xr, upd, formref,
                      Put(form, "Fields",
                          Array(Append(form["Fields"].a, Reference(nr.Number, nr.Generation))))),
            Append(form["Fields"].a, Reference(nr.Number, nr.Generation)), nr)
    ELSE IF Has(form, "Fields") /\ IsRef(form["Fields"])
    THEN newFieldListRef(xr, upd, AsRef(form["Fields"]), GetArray(xr, f, AsRef(form["Fields"])), nr)
    ELSE LRes("AcroForm/Fields is not an array", xr, upd, <<>>, nr)

(* newFieldList after GetDict(formref) returned g. *)
newFieldListForm(xr, upd, f, formref, g, name) ==
    IF g.err # "" THEN LRes(g.err, xr, upd, <<>>, NoRef)
    ELSE newFieldListAdd(CreateObject(xr, upd, Dict([T |-> Str(name)])).xref,
                         CreateObject(xr, upd, Dict([T |-> Str(name)])).updates,
                         f, formref, g.obj.d, Ref(Len(xr), 0))

newFieldList(xr, upd, f, cat, name) ==
    IF ~(Has(cat, "AcroForm") /\ IsRef(cat["AcroForm"]))
    THEN LRes("AcroForm is not a reference", xr, upd, <<>>, NoRef)
    ELSE newFieldListForm(xr, upd, f, AsRef(cat["AcroForm"]),
                          GetDict(xr, f, AsRef(cat["AcroForm"])), name)

(* cloneField after CreateObject(newField). *)
cloneFieldNew(r, oldFieldRef, newField) ==
    CRes("", CreateObject(r.xref, r.updates, newField).xref,
         CreateObject(r.xref, r.updates, newField).updates,
         Put(r.clones, oldFieldRef, Ref(Len(r.xref), 0)), Reference(Len(r.xref), 0))

(* cloneField after cloneDict(oldField) returned r.  The page of the clone *)
(* is stored under the key Page.                                           *)
cloneFieldMade(r, oldFieldRef, newPageRef, newParentRef) ==
    IF r.err # "" THEN r
    ELSE cloneFieldNew(r, oldFieldRef,
            Dict(Put(Put(r.obj.d, "Page", Reference(newPageRef.Number, newPageRef.Generation)),
                     "Parent", Reference(newParentRef.Number, newParentRef.Generation))))

cloneField(xr, upd, f, oldField, oldFieldRef, newPageRef, newParentRef, clones) ==
    cloneFieldMade(cloneDict(xr, upd, f, clones, oldField), oldFieldRef, newPageRef, newParentRef)

(* What cloneFields returns: the references of the clones. *)
FRes(e, xr, upd, list) == [err |-> e, xref |-> xr, updates |-> upd, list |-> list]

RECURSIVE cloneFieldsFrom(_, _, _, _, _, _)

(* cloneFields after cloneField returned r for entry i. *)
cloneFieldsAdd(r, list, f, fieldsKids, i, c) ==
    IF r.err # "" THEN FRes(r.err, r.xref, r.updates, <<>>)
    ELSE cloneFieldsFrom(CRes("", r.xref, r.updates, r.clones, Null), Append(list, r.obj),
                         f, fieldsKids, i + 1, c)

(* cloneFields after GetDict returned g for entry i. *)
cloneFieldsGot(st, list, f, fieldsKids, i, c, g) ==
    IF g.err # "" THEN FRes(g.err, st.xref, st.updates, <<>>)
    ELSE IF ~(Has(g.obj.d, "P") /\ IsRef(g.obj.d["P"]) /\ AsRef(g.obj.d["P"]) = c.oldPageRef)
    THEN cloneFieldsFrom(st, list, f, fieldsKids, i + 1, c)
    ELSE cloneFieldsAdd(cloneField(st.xref, st.updates, f, g.obj.d, AsRef(fieldsKids[i]),
                                   c.newPageRef, c.newTreeRef, st.clones),
                        list, f, fieldsKids, i, c)

(* The loop of cloneFields from entry i on; st carries the table, the      *)
(* dirty set and the clones, c the three references of the call.           *)
cloneFieldsFrom(st, list, f, fieldsKids, i, c) ==
    IF i > Len(fieldsKids) THEN FRes("", st.xref, st.updates, list)
    ELSE IF ~IsRef(fieldsKids[i])
    THEN FRes("AcroForm/Fields/# is not a reference", st.xref, st.updates, <<>>)
    ELSE cloneFieldsGot(st, list, f, fieldsKids, i, c, GetDict(st.xref, f, AsRef(fieldsKids[i])))

cloneFields(xr, upd, f, fieldsKids, oldPageRef, newPageRef, newTreeRef) ==
    cloneFieldsFrom(CRes("", xr, upd, Put(EmptyDict, oldPageRef, newPageRef), Null), <<>>,
                    f, fieldsKids, 1,
                    [oldPageRef |-> oldPageRef, newPageRef |-> newPageRef, newTreeRef |-> newTreeRef])

(* ClonePage after cloneFields returned cf: the list is stored in the new  *)
(* field list and, on success, in the new page.                            *)
ClonePageDone(cp, fl, cf, prefix) ==
    IF cf.err # ""
    THEN SRes(cf.err,
              SetSlot(cf.xref, fl.newFieldRef, [T |-> Str(prefix), Kids |-> Array(cf.list)]),
              Put(cf.updates, fl.newFieldRef, Dict([T |-> Str(prefix), Kids |-> Array(cf.list)])))
    ELSE SRes("",
              SetSlot(SetSlot(cf.xref, fl.newFieldRef, [T |-> Str(prefix), Kids |-> Array(cf.list)]),
                      cp.newPageRef, Put(cp.newPage, "Annots", Array(cf.list))),
              Put(Put(cf.updates, fl.newFieldRef, Dict([T |-> Str(prefix), Kids |-> Array(cf.list)])),
                  cp.newPageRef, Dict(Put(cp.newPage, "Annots", Array(cf.list)))))

(* ClonePage after newFieldList returned fl. *)
ClonePageFields(cp, fl, f, prefix) ==
    IF fl.err # "" THEN SRes(fl.err, fl.xref, fl.updates)
    ELSE ClonePageDone(cp, fl,
                       cloneFields(fl.xref, fl.updates, f, fl.fields, cp.oldPageRef,
                                   cp.newPageRef, fl.newFieldRef),
                       prefix)

(* ClonePage after clonePage returned cp. *)
ClonePageList(cp, f, cat, prefix) ==
    IF cp.err # "" THEN SRes(cp.err, cp.xref, cp.updates)
    ELSE ClonePageFields(cp, newFieldList(cp.xref, cp.updates, f, cat, prefix), f, prefix)

ClonePage(xr, upd, f, cat, pagenum, prefix) ==
    ClonePageList(clonePage(xr, upd, f, cat, pagenum), f, cat, prefix)

----------------------------------------------------------------------------
(* The file the form specification opens: one page with a checkbox, a      *)
(* radio group of three buttons and a text field.                          *)
(*   1 catalog; 2 page tree; 3 AcroForm; 4 the page; 5 checkbox "Agree",   *)
(*   /V absent; 6 radio group "Choice" with kids 7, 8, 9 labelled 1, 2, 3; *)
(*   10 text field "A" with /V (a0); 11 the font; 12 an appearance stream. *)

Widget(label) ==
    Dict([Parent |-> Reference(6, 0), P |-> Reference(4, 0), AS |-> Name("Off"),
          AP |-> Dict([N |-> Dict(Put(EmptyDict, label, Reference(12, 0)))])])

FormFile ==
    << ObjRec(1, 0, Dict([Type |-> Name("Catalog"), Pages |-> Reference(2, 0),
                          AcroForm |-> Reference(3, 0)])),
       ObjRec(2, 0, Dict([Type |-> Name("Pages"), Count |-> Integer(1),
                          Kids |-> Array(<<Reference(4, 0)>>)])),
       ObjRec(3, 0, Dict([Fields |-> Array(<<Reference(5, 0), Reference(6, 0), Reference(10, 0)>>),
                          DR |-> Dict([Font |-> Dict([Helv |-> Reference(11, 0)])])])),
       ObjRec(4, 0, Dict([Type |-> Name("Page"), Parent |-> Reference(2, 0),
                          Annots |-> Array(<<Reference(5, 0), Reference(7, 0), Reference(8, 0),
                                             Reference(9, 0), Reference(10, 0)>>)])),
       ObjRec(5, 0, Dict([T |-> Str("Agree"), FT |-> Name("Btn"), P |-> Reference(4, 0),
                          AS |-> Name("Off"),
                          AP |-> Dict([N |-> Dict([Yes |-> Reference(12, 0)])])])),
       ObjRec(6, 0, Dict([T |-> Str("Choice"), FT |-> Name("Btn"), Ff |-> Integer(2 ^ RadioBit),
                          Kids |-> Array(<<Reference(7, 0), Reference(8, 0), Reference(9, 0)>>)])),
       ObjRec(7, 0, Widget("1")),
       ObjRec(8, 0, Widget("2")),
       ObjRec(9, 0, Widget("3")),
       ObjRec(10, 0, Dict([T |-> Str("A"), FT |-> Name("Tx"), P |-> Reference(4, 0),
                           V |-> Str("a0"), DA |-> Str("/Helv 12 Tf"),
                           Rect |-> Array(<<Integer(0), Integer(0), Integer(100), Integer(20)>>),
                           AP |-> Dict([N |-> Reference(12, 0)])])),
       ObjRec(11, 0, Dict([Type |-> Name("Font"), BaseFont |-> Name("Helvetica")])),
       ObjRec(12, 0, Stream([Length |-> Integer(0)], Data(<<>>, <<>>))),
       TableRec(<<Sub(0, <<Line("f", 0, 65535)>> \o [i \in 1..12 |-> Line("n", i, 0)])>>,
                [Root |-> Reference(1, 0), Size |-> Integer(13)]),
       StartXRefRec(13) >>

(* The calls of the form specification. *)
SetFieldCalls ==
    { <<"Agree", "Yes">>, <<"Agree", "Off">>, <<"Agree", "maybe">>,
      <<"Choice", "1">>, <<"Choice", "2">>, <<"Choice", "Off">>,
      <<"A", "x">>, <<"A", "a0">>, <<"P2.A", "x">>, <<"B", "x">> }

FontSizes == {0, 10}
PageNumbers == {0, 1}
Prefixes == {"P2"}
FormGetRefs == {Ref(5, 0), Ref(13, 0)}
FormUpdateRefs == {Ref(11, 0)}

(* What a call of package pdfform returned. *)
FormRet(op, name, value, err, fields) ==
    [op |-> op, ref |-> NoRef, res |-> Fail(err, 0), name |-> name, value |-> value,
     fields |-> fields]

(* A call recorded in the history, with the dirty references before it. *)
Called(op, name, value, err) ==
    [op |-> op, name |-> name, value |-> value, err |-> err, dirty |-> DOMAIN updates]

FormInit == Opened(FormFile)

(* SetField returned s. *)
SetFieldDone(s, name, value) ==
    /\ xref' = s.xref
    /\ updates' = s.updates
    /\ ret' = FormRet("SetField", name, value, s.err, EmptyDict)
    /\ hist' = [hist EXCEPT !.set = IF s.err = "" THEN Put(@, name, value) ELSE Del(@, name),
                            !.calls = Append(@, Called("SetField", name, value, s.err))]

CallSetField(name, value, fontSize) ==
    /\ nops < MaxOps
    /\ SetFieldDone(SetField(xref, updates, file, Catalog, name, value, fontSize), name, value)
    /\ nops' = nops + 1
    /\ UNCHANGED <<file, start, Info, Catalog, snap, rd>>

(* ClonePage returned s. *)
ClonePageReturned(s, pagenum, prefix) ==
    /\ xref' = s.xref
    /\ updates' = s.updates
    /\ ret' = FormRet("ClonePage", prefix, "", s.err, EmptyDict)
    /\ hist' = [hist EXCEPT !.calls = Append(@, Called("ClonePage", prefix, "", s.err))]

CallClonePage(pagenum, prefix) ==
    /\ nops < MaxOps
    /\ ClonePageReturned(ClonePage(xref, updates, file, Catalog, pagenum, prefix), pagenum, prefix)
    /\ nops' = nops + 1
    /\ UNCHANGED <<file, start, Info, Catalog, snap, rd>>

(* GetFields returned r. *)
GetFieldsReturned(r) == ret' = FormRet("GetFields", "", "", r.err, r.fields)

CallGetFields ==
    /\ GetFieldsReturned(GetFields(xref, file, Catalog))
    /\ UNCHANGED <<file, xref, start, Info, Catalog, updates, snap, nops, rd, hist>>

FormNext ==
    \/ \E c \in SetFieldCalls, fontSize \in FontSizes : CallSetField(c[1], c[2], fontSize)
    \/ \E pagenum \in PageNumbers, prefix \in Prefixes : CallClonePage(pagenum, prefix)
    \/ CallGetFields
    \/ \E r \in FormGetRefs : CallGet(r)
    \/ \E r \in FormUpdateRefs, obj \in NewObjects : CallUpdateObject(r, obj)
    \/ \E obj \in NewObjects : CallCreateObject(obj)
    \/ CallWrite
    \/ CallOpen

FormSpec == FormInit /\ [][FormNext]_vars

----------------------------------------------------------------------------
(* Properties of the form layer (specification FormSpec). *)

AgreeRef == Ref(5, 0)
ChoiceRef == Ref(6, 0)
ChoiceKids == {Ref(7, 0), Ref(8, 0), Ref(9, 0)}
TextRef == Ref(10, 0)

(* The version of an object a Write would leave as the newest in the file: *)
(* the pending one, or else the one the file has.                          *)
Effective(r) ==
    IF r \in DOMAIN updates THEN updates[r] ELSE Get(xref, file, r, MaxFuel).obj

(* The i-th call on the store in use was a successful SetField(name, value). *)
WasSet(i, name, value) ==
    /\ hist.calls[i].op = "SetField"
    /\ hist.calls[i].name = name
    /\ hist.calls[i].value = value
    /\ hist.calls[i].err = ""

(* C3: a field name n whose last SetField(n, v) returned nil reads back as *)
(* v from GetFields once the file was written and opened again, whatever   *)
(* successful SetField calls came before.  Stated for the values other     *)
(* than "Off", the value a button stores as the absence of /V.             *)
C3_FormReadAfterWrite ==
    (ret.op = "Open" /\ ret.res.err = "" /\ hist.store > 0)
        => \A n \in DOMAIN hist.set :
              hist.set[n] # "Off"
                  => /\ n \in DOMAIN GetFields(xref, file, Catalog).fields
                     /\ GetFields(xref, file, Catalog).fields[n] = hist.set[n]

IsPrefix(a, b) == Len(a) <= Len(b) /\ SubSeq(b, 1, Len(a)) = a

(* C6: a step that is not a Write leaves the file as it is, and a Write    *)
(* leaves the file it found as a prefix of the file it makes.              *)
C6_FileChangesOnlyInWrite ==
    [][IF ret'.op = "Write" THEN IsPrefix(file, file') ELSE file' = file]_vars

(* A Write that appended to the file after a SetField and a ClonePage      *)
(* that both returned nil.                                                 *)
C6_Witness ==
    /\ ret.op = "Write"
    /\ Len(file) > snap.flen
    /\ \E i, j \in 1..Len(hist.calls) :
          /\ hist.calls[i].op = "SetField" /\ hist.calls[i].err = ""
          /\ hist.calls[j].op = "ClonePage" /\ hist.calls[j].err = ""

(* C7: on a store whose file has the checkbox without /V, after the calls  *)
(* SetField(Agree, Yes), SetField(Agree, Yes), SetField(Agree, Off): the   *)
(* first leaves the pending field with /V /Yes and /AS /Yes, the second    *)
(* adds no dirty entry, the third leaves the pending field without /V and  *)
(* with /AS /Off.                                                          *)
C7_CheckboxToggling ==
    (ret.op = "SetField" /\ ~Has(Get(xref, file, AgreeRef, MaxFuel).obj.d, "V"))
        => /\ (Len(hist.calls) = 1 /\ WasSet(1, "Agree", "Yes"))
                => /\ AgreeRef \in DOMAIN updates
                   /\ At(updates[AgreeRef].d, "V") = Name("Yes")
                   /\ At(updates[AgreeRef].d, "AS") = Name("Yes")
           /\ (Len(hist.calls) = 2 /\ WasSet(1, "Agree", "Yes") /\ WasSet(2, "Agree", "Yes"))
                => DOMAIN updates = hist.calls[2].dirty
           /\ (Len(hist.calls) = 3 /\ WasSet(1, "Agree", "Yes") /\ WasSet(2, "Agree", "Yes")
                  /\ WasSet(3, "Agree", "Off"))
                => /\ AgreeRef \in DOMAIN updates
                   /\ ~Has(updates[AgreeRef].d, "V")
                   /\ At(updates[AgreeRef].d, "AS") = Name("Off")

(* C8: after SetField(Choice, v) returned nil, exactly one kid of the      *)
(* radio group has /AS /v and the others /AS /Off, and the parent has      *)
(* /V /v; for v = "Off" every kid has /AS /Off and the parent no /V.       *)
C8_RadioCoverage ==
    (ret.op = "SetField" /\ ret.name = "Choice" /\ ret.res.err = "")
        => IF ret.value = "Off"
           THEN /\ \A k \in ChoiceKids : At(Effective(k).d, "AS") = Name("Off")
                /\ ~Has(Effective(ChoiceRef).d, "V")
           ELSE /\ Cardinality({k \in ChoiceKids : At(Effective(k).d, "AS") = Name(ret.value)}) = 1
                /\ \A k \in ChoiceKids :
                      At(Effective(k).d, "AS") \in {Name(ret.value), Name("Off")}
                /\ At(Effective(ChoiceRef).d, "V") = Name(ret.value)

(* The fields of the page of FormFile that cloneFields clones. *)
PageFields == {"Agree", "A"}

(* C9: after ClonePage(0, P2) returned nil the form, as GetFields reads    *)
(* it, has X and P2.X for every field X of the page; and a SetField on     *)
(* P2.A leaves /V of the original field A as it was, in the dirty set and  *)
(* in what a Write puts into the file.                                     *)
C9_CloneIsolation ==
    [][/\ (ret'.op = "ClonePage" /\ ret'.res.err = "")
            => \A X \in PageFields :
                  {X, "P2." \o X} \subseteq DOMAIN GetFields(xref', file', Catalog').fields
       /\ (ret'.op = "SetField" /\ ret'.name = "P2.A")
            => /\ (TextRef \in DOMAIN updates') = (TextRef \in DOMAIN updates)
               /\ At(Effective(TextRef).d, "V")' = At(Effective(TextRef).d, "V")]_vars

----------------------------------------------------------------------------
(* Further properties of the object store (specification Spec). *)

(* C11: a successful Get(ref) on a Direct or InObjectStream slot leaves    *)
(* the parsed object in the cache of that slot of the table, from where a  *)
(* second Get(ref) would return it without reading the file.               *)
C11_GetCachesParsedObject ==
    (/\ ret.op = "Get"
     /\ ret.res.err = ""
     /\ ret.ref.Number < Len(xref)
     /\ xref[ret.ref.Number + 1].t \in {"direct", "objstm"})
        => xref[ret.ref.Number + 1].cache = ret.res.obj

----------------------------------------------------------------------------
(* The text of names and strings.  A byte is an integer of 0..255 and a    *)
(* text is a sequence of bytes; a name, a string and a hex string are the  *)
(* sequences of their bytes.                                               *)

MaxLen == 2

(* "\x00\t\n\f\r ()<>[]{}/%" *)
nonRegularChars == {0, 9, 10, 12, 13, 32, 40, 41, 60, 62, 91, 93, 123, 125, 47, 37}

isRegularChar(b) == b \notin nonRegularChars

UpperHex(d) == IF d < 10 THEN 48 + d ELSE 55 + d
LowerHex(d) == IF d < 10 THEN 48 + d ELSE 87 + d

(* fmt's verb %2X: upper-case hexadecimal, padded with spaces to width 2. *)
Fmt2X(b) ==
    IF b < 16 THEN <<32, UpperHex(b)>>
    ELSE <<UpperHex(b \div 16), UpperHex(b % 16)>>

RECURSIVE encodeNameFrom(_)
encodeNameFrom(by) ==
    IF by = <<>> THEN <<>>
    ELSE (IF isRegularChar(Head(by)) THEN <<Head(by)>>
          ELSE <<35>> \o Fmt2X(Head(by))) \o encodeNameFrom(Tail(by))

encodeName(n) == <<47>> \o encodeNameFrom(n)

RECURSIVE encodeHexFrom(_)
encodeHexFrom(by) ==
    IF by = <<>> THEN <<>>
    ELSE <<LowerHex(Head(by) \div 16), LowerHex(Head(by) % 16)>>
             \o encodeHexFrom(Tail(by))

encodeHexString(by) == <<60>> \o encodeHexFrom(by) \o <<62>>

RECURSIVE encodeStringFrom(_)
encodeStringFrom(by) ==
    IF by = <<>> THEN <<>>
    ELSE (IF Head(by) = 13 THEN <<92, 114>>
          ELSE IF Head(by) \in {92, 40, 41} THEN <<92, Head(by)>>
          ELSE <<Head(by)>>) \o encodeStringFrom(Tail(by))

encodeString(s) == <<40>> \o encodeStringFrom(s) \o <<41>>

(* What the parser returns: an error, or the kind of the object, its value *)
(* (the bytes of a name or string, the number, the entries of an array or  *)
(* dictionary) and the buffer after the object.                            *)
Parsed(kind, by, rest) == [err |-> "", kind |-> kind, by |-> by, rest |-> rest]
ParseError(e) == [err |-> e, kind |-> "", by |-> <<>>, rest |-> <<>>]

(* The value of a hexadecimal digit, -1 for any other byte. *)
HexDigit(c) ==
    IF c \in 48..57 THEN c - 48
    ELSE IF c \in 65..70 THEN c - 55
    ELSE IF c \in 97..102 THEN c - 87
    ELSE -1

Skip(by, size) == SubSeq(by, size + 1, Len(by))

RECURSIVE stName(_, _)
stName(by, accum) ==
    IF Len(by) < 1 THEN ParseError("EOF")
    ELSE IF by[1] \in nonRegularChars THEN Parsed("name", accum, by)
    ELSE IF by[1] = 35
    THEN IF Len(by) < 3 THEN ParseError("EOF")
         ELSE IF HexDigit(by[2]) < 0 \/ HexDigit(by[3]) < 0
         THEN ParseError("invalid character in hex escape in /Name")
         ELSE stName(Skip(by, 3), Append(accum, HexDigit(by[2]) * 16 + HexDigit(by[3])))
    ELSE stName(Skip(by, 1), Append(accum, by[1]))

RECURSIVE stHex(_, _)
stHex(by, accum) ==
    IF Len(by) < 2 THEN ParseError("EOF")
    ELSE IF by[1] = 62 THEN Parsed("hex", accum, Skip(by, 1))
    ELSE IF HexDigit(by[1]) < 0 \/ HexDigit(by[2]) < 0
    THEN ParseError("invalid character in hex string")
    ELSE stHex(Skip(by, 2), Append(accum, HexDigit(by[1]) * 16 + HexDigit(by[2])))

IsOctal(c) == c \in 48..55

RECURSIVE stString(_, _, _)
RECURSIVE stStringEsc(_, _, _)

stString(by, accum, parens) ==
    IF Len(by) < 1 THEN ParseError("EOF")
    ELSE IF by[1] = 40 THEN stString(Skip(by, 1), Append(accum, 40), parens + 1)
    ELSE IF by[1] = 41
    THEN IF parens - 1 = 0 THEN Parsed("string", accum, Skip(by, 1))
         ELSE stString(Skip(by, 1), Append(accum, 41), parens - 1)
    ELSE IF by[1] = 92 THEN stStringEsc(Skip(by, 1), accum, parens)
    ELSE IF by[1] = 13
    THEN IF Len(by) < 2 THEN ParseError("EOF")
         ELSE stString(Skip(by, IF by[2] = 10 THEN 2 ELSE 1), Append(accum, 10), parens)
    ELSE stString(Skip(by, 1), Append(accum, by[1]), parens)

stStringEsc(by, accum, parens) ==
    IF Len(by) < 1 THEN ParseError("EOF")
    ELSE IF by[1] = 110 THEN stString(Skip(by, 1), Append(accum, 10), parens)
    ELSE IF by[1] = 114 THEN stString(Skip(by, 1), Append(accum, 13), parens)
    ELSE IF by[1] = 116 THEN stString(Skip(by, 1), Append(accum, 9), parens)
    ELSE IF by[1] = 98 THEN stString(Skip(by, 1), Append(accum, 8), parens)
    ELSE IF by[1] = 102 THEN stString(Skip(by, 1), Append(accum, 12), parens)
    ELSE IF by[1] = 13
    THEN IF Len(by) < 2 THEN ParseError("EOF")
         ELSE stString(Skip(by, IF by[2] = 10 THEN 2 ELSE 1), accum, parens)
    ELSE IF by[1] = 10 THEN stString(Skip(by, 1), accum, parens)
    ELSE IF IsOctal(by[1])
    THEN IF Len(by) < 3 THEN ParseError("EOF")
         ELSE IF IsOctal(by[2]) /\ IsOctal(by[3])
         THEN stString(Skip(by, 3),
                       Append(accum, ((by[1] - 48) * 64 + (by[2] - 48) * 8
                                         + (by[3] - 48)) % 256),
                       parens)
         ELSE IF IsOctal(by[2])
         THEN stString(Skip(by, 2), Append(accum, (by[1] - 48) * 8 + (by[2] - 48)),
                       parens)
         ELSE stString(Skip(by, 1), Append(accum, by[1] - 48), parens)
    ELSE stString(Skip(by, 1), Append(accum, by[1]), parens)

(* The bytes the parser skips between tokens: " \t\r\n\f\x00". *)
WhiteSpace == {0, 9, 10, 12, 13, 32}
Digits == 48..57

(* bytes.IndexAny: the place of the first byte of by that is in S, counted *)
(* from 1; 0 when there is none.                                           *)
IndexAny(by, S) ==
    IF \E i \in 1..Len(by) : by[i] \in S
    THEN CHOOSE i \in 1..Len(by) : by[i] \in S /\ \A j \in 1..(i - 1) : by[j] \notin S
    ELSE 0

(* The place after the run of bytes of S that starts at place i. *)
RunEnd(by, i, S) ==
    IF \E j \in i..Len(by) : by[j] \notin S
    THEN CHOOSE j \in i..Len(by) : by[j] \notin S /\ \A k \in i..(j - 1) : by[k] \in S
    ELSE Len(by) + 1

HasPrefix(by, w) == Len(by) >= Len(w) /\ SubSeq(by, 1, Len(w)) = w

(* strconv.Atoi on a run of digits. *)
RECURSIVE Atoi(_)
Atoi(ds) ==
    IF ds = <<>> THEN 0
    ELSE Atoi(SubSeq(ds, 1, Len(ds) - 1)) * 10 + (ds[Len(ds)] - 48)

Unsigned(t) == IF t # <<>> /\ t[1] \in {43, 45} THEN Tail(t) ELSE t

(* The texts strconv.Atoi and strconv.ParseFloat accept, as far as they    *)
(* are made of a sign, digits and a point.                                 *)
IsIntText(t) == Unsigned(t) # <<>> /\ \A i \in 1..Len(Unsigned(t)) : Unsigned(t)[i] \in Digits
IsFloatText(t) ==
    /\ \E i \in 1..Len(Unsigned(t)) : Unsigned(t)[i] \in Digits
    /\ \A i \in 1..Len(Unsigned(t)) : Unsigned(t)[i] \in Digits \cup {46}
    /\ Cardinality({i \in 1..Len(Unsigned(t)) : Unsigned(t)[i] = 46}) <= 1
IntValue(t) == IF t[1] = 45 THEN 0 - Atoi(Unsigned(t)) ELSE Atoi(Unsigned(t))

(* The value of a parsed object as an array or a dictionary holds it. *)
Val(r) == [kind |-> r.kind, by |-> r.by]

(* A call of the filler p.more.  readObjectFrom leaves the filler nil, and *)
(* the call of a nil function stops the program.                           *)
CallMore(by) == ParseError("panic")

(* parser.skipWhitespace: rest is the buffer from the first byte on that   *)
(* is not white space; the end of the buffer is the error of extend.       *)
RECURSIVE skipWhitespace(_)
skipWhitespace(by) ==
    IF Len(by) < 1 THEN ParseError("EOF")
    ELSE IF by[1] \notin WhiteSpace THEN Parsed("", <<>>, by)
    ELSE skipWhitespace(Skip(by, 1))

(* The words of the syntax, as bytes. *)
wNull == <<110, 117, 108, 108>>
wTrue == <<116, 114, 117, 101>>
wFalse == <<102, 97, 108, 115, 101>>
wObj == <<111, 98, 106>>
wEndObj == <<101, 110, 100, 111, 98, 106>>
wStream == <<115, 116, 114, 101, 97, 109>>
wEndStream == <<101, 110, 100, 115, 116, 114, 101, 97, 109>>
wLength == <<76, 101, 110, 103, 116, 104>>

stWord(by) ==
    IF Len(by) < 6 THEN ParseError("EOF")
    ELSE IF HasPrefix(by, wNull) /\ ~isRegularChar(by[5]) THEN Parsed("null", <<>>, Skip(by, 4))
    ELSE IF HasPrefix(by, wTrue) /\ ~isRegularChar(by[5]) THEN Parsed("bool", TRUE, Skip(by, 4))
    ELSE IF HasPrefix(by, wFalse) /\ ~isRegularChar(by[6]) THEN Parsed("bool", FALSE, Skip(by, 5))
    ELSE ParseError("unexpected bare word")

(* stNumber when the number's text t ends before rest. *)
stNumberText(t, rest) ==
    IF IsIntText(t) THEN Parsed("int", IntValue(t), rest)
    ELSE IF IsFloatText(t) THEN Parsed("real", t, rest)
    ELSE ParseError("invalid numeric constant")

(* stNumber: the number ends at the first byte that is not regular; when   *)
(* the buffer has none, the filler is called.                              *)
stNumber(by) ==
    IF IndexAny(by, nonRegularChars) = 0 THEN CallMore(by)
    ELSE stNumberText(SubSeq(by, 1, IndexAny(by, nonRegularChars) - 1),
                      Skip(by, IndexAny(by, nonRegularChars) - 1))

(* The places where the parts of "digits space digits space word" end in   *)
(* by: after the first number, the space after it, the second number and   *)
(* the space after that.                                                   *)
RefEnds(by) ==
    [d1 |-> RunEnd(by, 1, Digits),
     w1 |-> RunEnd(by, RunEnd(by, 1, Digits), WhiteSpace),
     d2 |-> RunEnd(by, RunEnd(by, RunEnd(by, 1, Digits), WhiteSpace), Digits),
     w2 |-> RunEnd(by, RunEnd(by, RunEnd(by, RunEnd(by, 1, Digits), WhiteSpace), Digits),
                   WhiteSpace)]

(* refObjRE: "R", "obj" or, when by does not match, "". *)
refObjREAt(by, e) ==
    IF ~(e.d1 > 1 /\ e.w1 > e.d1 /\ e.d2 > e.w1 /\ e.w2 > e.d2) THEN ""
    ELSE IF Len(by) >= e.w2 + 1 /\ by[e.w2] = 82 /\ by[e.w2 + 1] \in nonRegularChars THEN "R"
    ELSE IF Len(by) >= e.w2 + 3 /\ SubSeq(by, e.w2, e.w2 + 2) = wObj
            /\ by[e.w2 + 3] \in nonRegularChars THEN "obj"
    ELSE ""

refObjRE(by) == refObjREAt(by, RefEnds(by))

(* refObjPrefixRE: the whole of by is the beginning of a reference or of   *)
(* the head of an indirect object.                                         *)
refObjPrefixREAt(by, e) ==
    /\ e.d1 > 1
    /\ \/ e.d1 = Len(by) + 1
       \/ /\ e.w1 > e.d1
          /\ \/ e.w1 = Len(by) + 1
             \/ /\ e.d2 > e.w1
                /\ \/ e.d2 = Len(by) + 1
                   \/ /\ e.w2 > e.d2
                      /\ SubSeq(by, e.w2, Len(by)) \in
                            {<<>>, <<82>>, <<111>>, <<111, 98>>, wObj}

refObjPrefixRE(by) == refObjPrefixREAt(by, RefEnds(by))

(* stRef: the reference; the byte after the R stays in the buffer. *)
stRefAt(by, e) ==
    Parsed("ref", <<Atoi(SubSeq(by, 1, e.d1 - 1)), Atoi(SubSeq(by, e.w1, e.d2 - 1))>>,
           Skip(by, e.w2))

stRef(by) == stRefAt(by, RefEnds(by))

RECURSIVE stStart(_)
RECURSIVE stArray(_, _)
RECURSIVE stDict(_, _)

(* stComment: the comment ends with a line feed, or with a carriage return *)
(* that has a byte after it; when the buffer has no such end the filler is *)
(* called.                                                                 *)
stCommentAt(by, idx) ==
    IF idx > 0 /\ by[idx] = 10 THEN stStart(Skip(by, idx))
    ELSE IF idx > 0 /\ Len(by) > idx
    THEN stStart(Skip(by, IF by[idx + 1] = 10 THEN idx + 1 ELSE idx))
    ELSE CallMore(by)

stComment(by) == stCommentAt(by, IndexAny(by, {13, 10}))

(* stNumberedObj after the object r was read and the white space after it  *)
(* skipped (w): the word endobj has to follow.                             *)
stNumberedObjEnd(r, w) ==
    IF w.err # "" THEN w
    ELSE IF Len(w.rest) < 7 THEN ParseError("EOF")
    ELSE IF HasPrefix(w.rest, wEndObj) /\ ~isRegularChar(w.rest[7])
    THEN Parsed(r.kind, r.by, Skip(w.rest, 6))
    ELSE ParseError("expected endobj after indirect object")

stNumberedObjRead(r) ==
    IF r.err # "" THEN r ELSE stNumberedObjEnd(r, skipWhitespace(r.rest))

stNumberedObj(by) == stNumberedObjRead(stStart(Skip(by, RefEnds(by).w2 + 2)))

(* stNumObjRef: a reference or an indirect object when refObjRE matches,   *)
(* a number when the buffer is not the beginning of one of those; the      *)
(* filler is called when it is.                                            *)
stNumObjRef(by) ==
    IF refObjRE(by) = "R" THEN stRef(by)
    ELSE IF refObjRE(by) = "obj" THEN stNumberedObj(by)
    ELSE IF ~refObjPrefixRE(by) THEN stNumber(by)
    ELSE CallMore(by)

(* stArray: a holds the values read so far; w is the buffer after the      *)
(* white space, r the value read next.                                     *)
stArrayGot(r, a) ==
    IF r.err # "" THEN r ELSE stArray(r.rest, Append(a, Val(r)))

stArrayAt(w, a) ==
    IF w.err # "" THEN w
    ELSE IF w.rest[1] = 93 THEN Parsed("array", a, Skip(w.rest, 1))
    ELSE stArrayGot(stStart(w.rest), a)

stArray(by, a) == stArrayAt(skipWhitespace(by), a)

(* The stream that follows the dictionary d: by begins with its data. *)
stStreamAfter(by) ==
    IF by[1] = 13 /\ by[2] = 10 THEN Skip(by, 2)
    ELSE IF by[1] \in {13, 10} THEN Skip(by, 1)
    ELSE by

stStreamEnd(by, d, data) ==
    IF ~HasPrefix(by, wEndStream) \/ isRegularChar(by[10])
    THEN ParseError("expected endstream at end of stream")
    ELSE Parsed("stream", [d |-> d, data |-> data], Skip(by, 9))

stStreamData(by, d) ==
    IF ~(wLength \in DOMAIN d /\ d[wLength].kind = "int")
    THEN ParseError("invalid Length for stream")
    ELSE IF Len(by) < d[wLength].by + 12 THEN ParseError("EOF")
    ELSE IF d[wLength].by < 0 THEN ParseError("panic")
    ELSE stStreamEnd(stStreamAfter(Skip(by, d[wLength].by)), d, SubSeq(by, 1, d[wLength].by))

(* stDict after the ">>": w is the buffer after the white space.  Without  *)
(* the word stream and its end of line the dictionary is the object.       *)
stDictStream(w, d) ==
    IF w.err # "" THEN Parsed("dict", d, <<>>)
    ELSE IF Len(w.rest) < 8 \/ ~HasPrefix(w.rest, wStream) THEN Parsed("dict", d, w.rest)
    ELSE IF (w.rest[7] # 13 /\ w.rest[7] # 10) \/ (w.rest[7] = 13 /\ w.rest[8] # 10)
    THEN Parsed("dict", d, w.rest)
    ELSE stStreamData(Skip(w.rest, IF w.rest[7] = 13 THEN 8 ELSE 7), d)

(* stDict: d holds the entries read so far, and "d[key] = obj" puts the    *)
(* value r under the key, over the value the key had.                      *)
stDictValue(key, r, d) ==
    IF r.err # "" THEN r ELSE stDict(r.rest, Put(d, key, Val(r)))

stDictKey(r, d) ==
    IF r.err # "" THEN r
    ELSE IF r.kind # "name" THEN ParseError("expected /Name in dict")
    ELSE stDictValue(r.by, stStart(r.rest), d)

stDictAt(w, d) ==
    IF w.err # "" THEN w
    ELSE IF Len(w.rest) < 2 THEN ParseError("EOF")
    ELSE IF w.rest[1] = 62 /\ w.rest[2] = 62
    THEN stDictStream(skipWhitespace(Skip(w.rest, 2)), d)
    ELSE stDictKey(stStart(w.rest), d)

stDict(by, d) == stDictAt(skipWhitespace(by), d)

(* stStart: the first byte chooses the state. *)
stStart(by) ==
    IF Len(by) < 1 THEN ParseError("EOF")
    ELSE IF by[1] \in {0, 9, 10, 12, 13, 32} THEN stStart(Skip(by, 1))
    ELSE IF by[1] = 37 THEN stComment(by)
    ELSE IF by[1] = 40 THEN stString(Skip(by, 1), <<>>, 1)
    ELSE IF by[1] = 60
    THEN IF Len(by) < 2 THEN ParseError("EOF")
         ELSE IF by[2] = 60 THEN stDict(Skip(by, 2), EmptyDict)
         ELSE stHex(Skip(by, 1), <<>>)
    ELSE IF by[1] = 62 THEN ParseError("unexpected >")
    ELSE IF by[1] = 47 THEN stName(Skip(by, 1), <<>>)
    ELSE IF by[1] = 91 THEN stArray(Skip(by, 1), <<>>)
    ELSE IF by[1] = 93 THEN ParseError("unexpected ]")
    ELSE IF by[1] \in {45, 43} \cup Digits THEN stNumObjRef(by)
    ELSE stWord(by)

readObjectFrom(by) == stStart(by)

(* writeRawObject on a Name, a string or a []byte. *)
writeRawText(kind, by) ==
    IF kind = "name" THEN encodeName(by)
    ELSE IF kind = "hex" THEN encodeHexString(by)
    ELSE encodeString(by)

(* " endobj\r\n", which writeObject puts after the text of the object. *)
EndObj == <<32, 101, 110, 100, 111, 98, 106, 13, 10>>

(* The bytes the values are made of: a regular byte below 0x10, a line     *)
(* feed, a carriage return, a space, '#', '(', ')', 'A', '\' and a byte    *)
(* above 0x7F.                                                             *)
TextBytes == {1, 10, 13, 32, 35, 40, 41, 65, 92, 200}

RECURSIVE SeqsUpTo(_, _)
SeqsUpTo(S, n) ==
    IF n = 0 THEN {<<>>}
    ELSE SeqsUpTo(S, n - 1)
           \cup {Append(s, b) : s \in SeqsUpTo(S, n - 1), b \in S}

TextValues == SeqsUpTo(TextBytes, MaxLen)

(* The specification of the text: file is the buffer the writer filled,    *)
(* ret the last call with the value written (in), its text and, after      *)
(* readObjectFrom, the object read back.                                   *)
TextRet(op, kind, in, text, res) ==
    [op |-> op, kind |-> kind, in |-> in, text |-> text, res |-> res]

TextInit ==
    /\ file = <<>>
    /\ xref = <<>>
    /\ start = 0
    /\ Info = EmptyDict
    /\ Catalog = EmptyDict
    /\ updates = EmptyDict
    /\ ret = TextRet("none", "", <<>>, <<>>, ParseError(""))
    /\ snap = NoSnap
    /\ nops = 0
    /\ rd = NoReader
    /\ hist = NoHist

Written(kind, by) ==
    /\ file' = writeRawText(kind, by) \o EndObj
    /\ ret' = TextRet("writeObject", kind, by, writeRawText(kind, by), ParseError(""))
    /\ UNCHANGED <<xref, start, Info, Catalog, updates, snap, nops, rd, hist>>

WriteName == \E n \in TextValues : Written("name", n)

WriteHexString == \E by \in TextValues : Written("hex", by)

WriteString == \E s \in TextValues : Written("string", s)

ReadBack ==
    /\ ret.op = "writeObject"
    /\ ret' = [ret EXCEPT !.op = "readObjectFrom", !.res = readObjectFrom(file)]
    /\ UNCHANGED <<file, xref, start, Info, Catalog, updates, snap, nops, rd, hist>>

TextNext == WriteName \/ WriteHexString \/ WriteString \/ ReadBack

TextSpec == TextInit /\ [][TextNext]_vars

(* C12: a name, a hex string or a literal string that was written and read *)
(* back is read without error as the value that was written, and encoding  *)
(* the value read gives the text that was read.                            *)
C12_TextRoundTrip ==
    ret.op = "readObjectFrom"
        => /\ ret.res.err = ""
           /\ ret.res.kind = ret.kind
           /\ ret.res.by = ret.in
           /\ writeRawText(ret.res.kind, ret.res.by) = ret.text

----------------------------------------------------------------------------
(* Decompress called again and again on one Stream (specification          *)
(* StreamSpec): ret holds the stream as the last call left it (s), as it   *)
(* was before that call (before), the error of the call and the error of   *)
(* the call before it.                                                     *)

Predictor(v) == Dict([Predictor |-> v])

StreamFilters ==
    {Null, Name("FlateDecode"), Name("LZWDecode"), Integer(1),
     Array(<<Name("FlateDecode"), Name("FlateDecode")>>),
     Array(<<Name("FlateDecode"), Name("LZWDecode")>>)}

StreamParms ==
    {Null, Predictor(Integer(1)), Predictor(Integer(12)), Predictor(Integer(5)),
     Predictor(Name("Up")), Integer(0),
     Array(<<Predictor(Integer(12)), Predictor(Integer(1))>>)}

StreamEncodings ==
    {<<>>, <<"FlateDecode">>, <<"FlateDecode", "PNG">>,
     <<"FlateDecode", "FlateDecode">>, <<"FlateDecode", "PNG", "FlateDecode">>}

RowSizes == {0, 3}

StreamOf(fl, dp, enc) ==
    LET d1 == IF fl = Null THEN EmptyDict ELSE Put(EmptyDict, "Filter", fl)
        d2 == IF dp = Null THEN d1 ELSE Put(d1, "DecodeParms", dp)
    IN  Stream(d2, Data(enc, <<1, 2>>))

StreamRet(op, s, before, err, prev) ==
    [op |-> op, s |-> s, before |-> before, err |-> err, prev |-> prev]

StreamInit ==
    /\ file = <<>>
    /\ xref = <<>>
    /\ start = 0
    /\ Info = EmptyDict
    /\ Catalog = EmptyDict
    /\ updates = EmptyDict
    /\ \E fl \in StreamFilters, dp \in StreamParms, enc \in StreamEncodings :
          ret = StreamRet("none", StreamOf(fl, dp, enc), StreamOf(fl, dp, enc),
                          "", "none")
    /\ snap = NoSnap
    /\ nops = 0
    /\ rd = NoReader
    /\ hist = NoHist

Decompressed(r) ==
    /\ ret' = StreamRet("Decompress", r.s, ret.s, r.err,
                        IF ret.op = "none" THEN "none" ELSE ret.err)
    /\ nops' = nops + 1
    /\ UNCHANGED <<file, xref, start, Info, Catalog, updates, snap, rd, hist>>

CallDecompress ==
    /\ nops < MaxOps
    /\ \E rowsize \in RowSizes : Decompressed(Decompress(ret.s, rowsize))

StreamNext == CallDecompress

StreamSpec == StreamInit /\ [][StreamNext]_vars

(* C13: a Decompress that follows a Decompress without error returns no    *)
(* error and leaves the payload as it was, with no /Filter; a Decompress   *)
(* that returns an error leaves the payload and /Filter as they were       *)
(* before the call.                                                        *)
C13_DecodeIdempotence ==
    ret.op = "Decompress"
        => /\ ret.prev = ""
                => /\ ret.err = ""
                   /\ ret.s.data = ret.before.data
                   /\ ~Has(ret.s.d, "Filter")
           /\ ret.err # ""
                => /\ ret.s.data = ret.before.data
                   /\ At(ret.s.d, "Filter") = At(ret.before.d, "Filter")

----------------------------------------------------------------------------
(* SetField on a form with a field of every kind (specification            *)
(* FieldSpec).                                                             *)
(*   1 catalog; 2 page tree; 3 AcroForm; 4 the page; 5 "Push", a button    *)
(*   with the push-button and the radio flag; 6 radio group "Choice" with  *)
(*   kids 7, 8; 9 "Group", a button with /Kids [10] and no /Ff; 11 the     *)
(*   font; 12 an appearance stream; 13 checkbox "Agree"; 14 text field     *)
(*   "A"; 15..18 the choice fields "List" (no /Ff), "Combo" (combo flag),  *)
(*   "Fixed" (/Ff 0) and "Free" (/Ff 0, no /Opt); 19 a signature field.    *)

ChoiceField(name, opt) ==
    [T |-> Str(name), FT |-> Name("Ch"), P |-> Reference(4, 0), Opt |-> Array(opt)]

FieldFile ==
    << ObjRec(1, 0, Dict([Type |-> Name("Catalog"), Pages |-> Reference(2, 0),
                          AcroForm |-> Reference(3, 0)])),
       ObjRec(2, 0, Dict([Type |-> Name("Pages"), Count |-> Integer(1),
                          Kids |-> Array(<<Reference(4, 0)>>)])),
       ObjRec(3, 0, Dict([Fields |-> Array(<<Reference(5, 0), Reference(6, 0), Reference(9, 0),
                                             Reference(13, 0), Reference(14, 0),
                                             Reference(15, 0), Reference(16, 0),
                                             Reference(17, 0), Reference(18, 0),
                                             Reference(19, 0)>>),
                          DR |-> Dict([Font |-> Dict([Helv |-> Reference(11, 0)])])])),
       ObjRec(4, 0, Dict([Type |-> Name("Page"), Parent |-> Reference(2, 0),
                          Annots |-> Array(<<Reference(5, 0), Reference(7, 0), Reference(8, 0),
                                             Reference(10, 0), Reference(13, 0),
                                             Reference(14, 0)>>)])),
       ObjRec(5, 0, Dict([T |-> Str("Push"), FT |-> Name("Btn"), P |-> Reference(4, 0),
                          Ff |-> Integer(2 ^ PushButtonBit + 2 ^ RadioBit)])),
       ObjRec(6, 0, Dict([T |-> Str("Choice"), FT |-> Name("Btn"), Ff |-> Integer(2 ^ RadioBit),
                          Kids |-> Array(<<Reference(7, 0), Reference(8, 0)>>)])),
       ObjRec(7, 0, Widget("1")),
       ObjRec(8, 0, Widget("2")),
       ObjRec(9, 0, Dict([T |-> Str("Group"), FT |-> Name("Btn"),
                          Kids |-> Array(<<Reference(10, 0)>>)])),
       ObjRec(10, 0, Dict([Parent |-> Reference(9, 0), P |-> Reference(4, 0),
                           AS |-> Name("Off"),
                           AP |-> Dict([N |-> Dict([On |-> Reference(12, 0)])])])),
       ObjRec(11, 0, Dict([Type |-> Name("Font"), BaseFont |-> Name("Helvetica")])),
       ObjRec(12, 0, Stream([Length |-> Integer(0)], Data(<<>>, <<>>))),
       ObjRec(13, 0, Dict([T |-> Str("Agree"), FT |-> Name("Btn"), P |-> Reference(4, 0),
                           AS |-> Name("Off"),
                           AP |-> Dict([N |-> Dict([Yes |-> Reference(12, 0)])])])),
       ObjRec(14, 0, Dict([T |-> Str("A"), FT |-> Name("Tx"), P |-> Reference(4, 0),
                           V |-> Str("a0"), DA |-> Str("/Helv 12 Tf"),
                           Rect |-> Array(<<Integer(0), Integer(0), Integer(100), Integer(20)>>),
                           AP |-> Dict([N |-> Reference(12, 0)])])),
       ObjRec(15, 0, Dict(ChoiceField("List", <<Str("a"), Str("b")>>))),
       ObjRec(16, 0, Dict(Put(ChoiceField("Combo", <<Str("a")>>), "Ff",
                              Integer(2 ^ ComboBit)))),
       ObjRec(17, 0, Dict(Put(ChoiceField("Fixed", <<Str("a"), Str("b")>>), "Ff",
                              Integer(0)))),
       ObjRec(18, 0, Dict(Del(Put(ChoiceField("Free", <<>>), "Ff", Integer(0)), "Opt"))),
       ObjRec(19, 0, Dict([T |-> Str("Sig"), FT |-> Name("Sig"), P |-> Reference(4, 0)])),
       TableRec(<<Sub(0, <<Line("f", 0, 65535)>> \o [i \in 1..19 |-> Line("n", i, 0)])>>,
                [Root |-> Reference(1, 0), Size |-> Integer(20)]),
       StartXRefRec(20) >>

(* The reference of each field of FieldFile. *)
FieldRefs ==
    [Push |-> Ref(5, 0), Choice |-> Ref(6, 0), Group |-> Ref(9, 0), Agree |-> Ref(13, 0),
     A |-> Ref(14, 0), List |-> Ref(15, 0), Combo |-> Ref(16, 0), Fixed |-> Ref(17, 0),
     Free |-> Ref(18, 0), Sig |-> Ref(19, 0)]

ChoiceNames == {"List", "Combo", "Fixed", "Free"}

FieldCalls ==
    { <<"Push", "On">>, <<"Choice", "1">>, <<"Group", "On">>, <<"Agree", "Yes">>,
      <<"A", "x">>, <<"List", "a">>, <<"Combo", "zz">>, <<"Fixed", "a">>,
      <<"Fixed", "zz">>, <<"Free", "zz">>, <<"Sig", "x">>, <<"B", "x">>, <<"Choice", "9">> }

FieldInit == Opened(FieldFile)

FieldNext ==
    \E c \in FieldCalls, fontSize \in FontSizes : CallSetField(c[1], c[2], fontSize)

FieldSpec == FieldInit /\ [][FieldNext]_vars

(* The handler the table of SetField names for a leaf field, applied. *)
ByTable(xr, upd, f, form, fieldref, field, value, fontSize) ==
    LET flags == IF IsInt(At(field, "Ff")) THEN field["Ff"].v ELSE 0 IN
    IF At(field, "FT") = Name("Btn")
    THEN IF Bit(flags, PushButtonBit) THEN SRes("field is a push button", xr, upd)
         ELSE IF Bit(flags, RadioBit) \/ Has(field, "Kids")
              THEN setRadioButton(xr, upd, f, fieldref, field, value)
         ELSE setCheckbox(xr, upd, fieldref, field, value)
    ELSE IF At(field, "FT") = Name("Tx")
         THEN setText(xr, upd, f, form, field, fieldref, value, fontSize)
    ELSE IF At(field, "FT") = Name("Ch") THEN setChoice(xr, upd, f, fieldref, field, value)
    ELSE SRes("field type is not supported", xr, upd)

(* The call left what s says. *)
LeftAs(s) ==
    /\ ret'.res.err = s.err
    /\ updates' = s.updates
    /\ xref' = s.xref

(* C14: SetField on a field of the form returns and leaves what the        *)
(* handler of the table does for the field's /FT and /Ff: the push-button  *)
(* error and no change when flag 1<<16 is set, whatever the radio flag;    *)
(* the radio handler for flag 1<<15 or /Kids; the checkbox handler for any *)
(* other /Btn; the text and choice handlers for /Tx and /Ch; an error and  *)
(* no change for any other type.                                           *)
C14_SetFieldDispatch ==
    [][(ret'.op = "SetField" /\ nops' = nops + 1 /\ ret'.name \in DOMAIN FieldRefs)
          => \E fontSize \in FontSizes :
                LeftAs(ByTable(xref, updates, file,
                               GetDict(xref, file, Ref(3, 0)).obj.d,
                               FieldRefs[ret'.name],
                               GetDict(xref, file, FieldRefs[ret'.name]).obj.d,
                               ret'.value, fontSize))]_vars

(* A push button that has the radio flag too was rejected and is not dirty. *)
C14_Witness ==
    /\ ret.op = "SetField"
    /\ ret.name = "Push"
    /\ ret.res.err = "field is a push button"
    /\ FieldRefs["Push"] \notin DOMAIN updates
    /\ FieldRefs["Choice"] \in DOMAIN updates

(* The value passes the option check of a choice field: the field allows   *)
(* editing (Ff & 0x60000), or has no /Opt, or /Opt holds the value.        *)
OptionOk(field, value) ==
    LET flags == IF IsInt(At(field, "Ff")) THEN field["Ff"].v ELSE 0 IN
    \/ Bit(flags, ComboBit) \/ Bit(flags, EditBit)
    \/ ~Has(field, "Opt")
    \/ \E i \in 1..Len(field["Opt"].a) : field["Opt"].a[i] = Str(value)

(* C15: SetField on a choice field returns nil when the value passes the   *)
(* option check, and then the field's /V is the value; it returns an error *)
(* when the field does not allow editing and its /Opt lacks the value.     *)
C15_ChoiceValidation ==
    (ret.op = "SetField" /\ ret.name \in ChoiceNames)
        => /\ (ret.res.err = "")
                 = OptionOk(GetDict(xref, file, FieldRefs[ret.name]).obj.d, ret.value)
           /\ ret.res.err = ""
                 => At(Effective(FieldRefs[ret.name]).d, "V") = Str(ret.value)

----------------------------------------------------------------------------
(* The store on a file whose only cross-reference section is an xref       *)
(* stream with /W [1 2 1] and /Index [2 5] (specification IndexSpec).      *)
(*   2 catalog; 3 an integer; 4 an object stream holding 5, deflated with  *)
(*   a PNG predictor; 6 the xref stream.                                   *)

IndexFile ==
    << ObjRec(2, 0, Dict([Type |-> Name("Catalog")])),
       ObjRec(3, 0, Integer(7)),
       ObjRec(4, 0, Stream([Type |-> Name("ObjStm"), N |-> Integer(1), First |-> Integer(4),
                            Length |-> Integer(1), Filter |-> Name("FlateDecode"),
                            DecodeParms |-> Dict([Predictor |-> Integer(12)])],
                           Data(<<"FlateDecode", "PNGNone">>, <<Member(5, Integer(8))>>))),
       ObjRec(6, 0, Stream([Type |-> Name("XRef"), Size |-> Integer(7),
                            Root |-> Reference(2, 0), Length |-> Integer(20),
                            Index |-> Array(<<Integer(2), Integer(5)>>),
                            W |-> Array(<<Integer(1), Integer(2), Integer(1)>>)],
                           Data(<<>>, << <<1, 1, 0>>, <<1, 2, 0>>, <<1, 3, 0>>,
                                         <<2, 4, 0>>, <<1, 4, 0>> >>))),
       StartXRefRec(4) >>

IndexGetRefs == {Ref(3, 0), Ref(5, 0)}
IndexUpdateRefs == {Ref(3, 0)}

IndexInit == Opened(IndexFile)

IndexNext ==
    \/ \E r \in IndexGetRefs : CallGet(r)
    \/ \E r \in IndexUpdateRefs, obj \in NewObjects : CallUpdateObject(r, obj)
    \/ \E obj \in NewObjects : CallCreateObject(obj)
    \/ CallWrite
    \/ CallOpen

IndexSpec == IndexInit /\ [][IndexNext]_vars

(* C16: in a store that Open returned without error, slot 0 of the table   *)
(* exists and is a Free entry, whatever calls of CreateObject,             *)
(* UpdateObject and Write were made since.                                 *)
C16_SlotZeroIsFree ==
    Catalog # EmptyDict
        => /\ Len(xref) > 0
           /\ xref[1] # Null
           /\ xref[1].t = "free"

(* The container of the object-stream slot of r, as Get fetches it. *)
ContainerOf(xr, f, r) == Get(xr, f, Ref(xr[r.Number + 1].stream, 0), MaxFuel)

(* C17: a Get on an entry of an object stream whose container Decompress   *)
(* cannot decode (unsupported filter, PNG predictor with row size 0)       *)
(* returns an error.                                                       *)
C17_GetReturnsDecodeError ==
    (/\ ret.op = "Get"
     /\ ret.ref.Number < Len(xref)
     /\ xref[ret.ref.Number + 1].t = "objstm"
     /\ ContainerOf(xref, file, ret.ref).err = ""
     /\ IsStream(ContainerOf(xref, file, ret.ref).obj)
     /\ Decompress(ContainerOf(xref, file, ret.ref).obj, 0).err # "")
        => ret.res.err # ""

----------------------------------------------------------------------------
(* Further properties of the form layer (specification FormSpec). *)

PagesRef == Ref(2, 0)

(* The array a with x put in at position i, counted from 0. *)
InsertAt(a, i, x) == SubSeq(a, 1, i) \o <<x>> \o SubSeq(a, i + 1, Len(a))

(* C18: a ClonePage(n, prefix) that returns nil on a page tree of k pages, *)
(* 0 <= n < k, leaves the Pages node dirty, with /Count one higher and     *)
(* with the /Kids it had and the reference of the new page put in at       *)
(* position n+1.                                                           *)
C18_ClonePageInsertsKid ==
    [][(ret'.op = "ClonePage" /\ ret'.res.err = "" /\ nops' = nops + 1)
          => /\ PagesRef \in DOMAIN updates'
             /\ Effective(PagesRef)'.d["Count"] = Integer(Effective(PagesRef).d["Count"].v + 1)
             /\ \E n \in PageNumbers :
                   /\ n < Len(Effective(PagesRef).d["Kids"].a)
                   /\ Effective(PagesRef)'.d["Kids"]
                         = Array(InsertAt(Effective(PagesRef).d["Kids"].a, n + 1,
                                          Reference(Len(xref), 0)))]_vars

----------------------------------------------------------------------------
(* The revisions Write appends (specification Spec). *)

(* The xref stream of the newest revision of file f, and the offset the    *)
(* startxref at the tail of f names.                                       *)
LastXRefStream(f) == f[Len(f) - 1]
LastStartXRef(f) == f[Len(f)].off

(* C19: the xref stream a Write emits has for /Prev the offset that the    *)
(* startxref at the tail of the file named just before that Write, also    *)
(* when it is the second Write on the store.                               *)
C19_PrevIsLastStartXRef ==
    [][(ret'.op = "Write" /\ nops' = nops + 1 /\ file' # file)
          => LastXRefStream(file').body.d["Prev"] = Integer(LastStartXRef(file))]_vars

(* The i-th record a Write appended to the file f it found. *)
Emitted(f, i) == file[Len(f) + i]

(* The records after file f are those of the dirty set upd: n objects      *)
(* 'num gen obj body endobj' by ascending object number, the xref stream,  *)
(* numbered xdnum, with one [num 1] pair and one row <<1, offset, gen      *)
(* byte>> per object and for itself, and the startxref.                    *)
EmittedObjects(f, upd, n) ==
    /\ \A i \in 1..n :
          /\ Emitted(f, i).t = "obj"
          /\ Ref(Emitted(f, i).num, Emitted(f, i).gen) \in DOMAIN upd
          /\ Emitted(f, i).body = upd[Ref(Emitted(f, i).num, Emitted(f, i).gen)]
    /\ \A i \in 1..n, j \in 1..n : i < j => Emitted(f, i).num < Emitted(f, j).num

EmittedXRef(f, n, xdnum, xs) ==
    /\ xs.t = "obj" /\ xs.num = xdnum /\ xs.gen = 0
    /\ xs.body.d["W"] = Array(<<Integer(1), Integer(4), Integer(1)>>)
    /\ xs.body.d["Length"] = Integer(6 * (n + 1))
    /\ xs.body.d["Index"] =
          Array([k \in 1..(2 * (n + 1)) |->
                    IF k % 2 = 0 THEN Integer(1)
                    ELSE IF k = 2 * n + 1 THEN Integer(xdnum)
                    ELSE Integer(Emitted(f, (k + 1) \div 2).num)])
    /\ xs.body.data.raw =
          [i \in 1..(n + 1) |->
              <<1, Len(f) + i, IF i = n + 1 THEN 0 ELSE Emitted(f, i).gen % GenByteMod>>]

(* C20: a Write with n dirty objects appends them by ascending object      *)
(* number, each as a record of its number, generation and body, then an    *)
(* xref stream whose /Index lists [num 1] for each of them in that order   *)
(* and [xrefStreamNum 1], and whose payload is n+1 rows of type 1, the     *)
(* offset of the record and the generation byte, then a startxref that     *)
(* names the offset of the xref stream.                                    *)
C20_WriteLayout ==
    (ret.op = "Write" /\ Len(file) > snap.flen)
        => /\ Len(file) = snap.flen + Cardinality(DOMAIN snap.updates) + 2
           /\ EmittedObjects(SubSeq(file, 1, snap.flen), snap.updates,
                             Cardinality(DOMAIN snap.updates))
           /\ EmittedXRef(SubSeq(file, 1, snap.flen), Cardinality(DOMAIN snap.updates),
                          Len(snap.xref), file[Len(file) - 1])
           /\ file[Len(file)] = StartXRefRec(Len(file) - 1)

(* A Write emitted three objects, one of them of generation 256. *)
C20_Witness ==
    /\ ret.op = "Write"
    /\ Len(file) > snap.flen
    /\ Cardinality(DOMAIN snap.updates) = 3
    /\ Ref(2, 256) \in DOMAIN snap.updates

----------------------------------------------------------------------------
(* SetField on text fields whose widgets hold their appearance in every    *)
(* way textAPN tells apart (specification WidgetSpec).                     *)
(*   1 catalog; 2 page tree; 3 AcroForm; 4 the page; 5 text field "M" with *)
(*   the widgets 6 (no /AP), 7 (/AP 14 0 R, whose /N is 12 0 R), 8 (/AP    *)
(*   15 0 R, which has no /N), 9 (/AP a dictionary with /N 16 0 R) and 13  *)
(*   (/AP a dictionary without /N); 10 text field "A", its own widget,     *)
(*   /AP a dictionary without /N; 11 the font; 12, 16 appearance streams.  *)

WidgetRect == Array(<<Integer(0), Integer(0), Integer(100), Integer(20)>>)

TextWidget == [Parent |-> Reference(5, 0), P |-> Reference(4, 0), Rect |-> WidgetRect]

WidgetFile ==
    << ObjRec(1, 0, Dict([Type |-> Name("Catalog"), Pages |-> Reference(2, 0),
                          AcroForm |-> Reference(3, 0)])),
       ObjRec(2, 0, Dict([Type |-> Name("Pages"), Count |-> Integer(1),
                          Kids |-> Array(<<Reference(4, 0)>>)])),
       ObjRec(3, 0, Dict([Fields |-> Array(<<Reference(5, 0), Reference(10, 0)>>),
                          DR |-> Dict([Font |-> Dict([Helv |-> Reference(11, 0)])])])),
       ObjRec(4, 0, Dict([Type |-> Name("Page"), Parent |-> Reference(2, 0)])),
       ObjRec(5, 0, Dict([T |-> Str("M"), FT |-> Name("Tx"), V |-> Str("a0"),
                          DA |-> Str("/Helv 12 Tf"),
                          Kids |-> Array(<<Reference(6, 0), Reference(7, 0), Reference(8, 0),
                                           Reference(9, 0), Reference(13, 0)>>)])),
       ObjRec(6, 0, Dict(TextWidget)),
       ObjRec(7, 0, Dict(Put(TextWidget, "AP", Reference(14, 0)))),
       ObjRec(8, 0, Dict(Put(TextWidget, "AP", Reference(15, 0)))),
       ObjRec(9, 0, Dict(Put(TextWidget, "AP", Dict([N |-> Reference(16, 0)])))),
       ObjRec(10, 0, Dict([T |-> Str("A"), FT |-> Name("Tx"), P |-> Reference(4, 0),
                           V |-> Str("a0"), DA |-> Str("/Helv 12 Tf"), Rect |-> WidgetRect,
                           AP |-> Dict([D |-> Reference(12, 0)])])),
       ObjRec(11, 0, Dict([Type |-> Name("Font"), BaseFont |-> Name("Helvetica")])),
       ObjRec(12, 0, Stream([Length |-> Integer(0)], Data(<<>>, <<>>))),
       ObjRec(13, 0, Dict(Put(TextWidget, "AP", Dict([D |-> Reference(12, 0)])))),
       ObjRec(14, 0, Dict([N |-> Reference(12, 0)])),
       ObjRec(15, 0, Dict([D |-> Reference(12, 0)])),
       ObjRec(16, 0, Stream([Length |-> Integer(0)], Data(<<>>, <<>>))),
       TableRec(<<Sub(0, <<Line("f", 0, 65535)>> \o [i \in 1..16 |-> Line("n", i, 0)])>>,
                [Root |-> Reference(1, 0), Size |-> Integer(17)]),
       StartXRefRec(17) >>

(* The widgets of each text field of WidgetFile. *)
WidgetsOf ==
    [M |-> {Ref(6, 0), Ref(7, 0), Ref(8, 0), Ref(9, 0), Ref(13, 0)}, A |-> {Ref(10, 0)}]

WidgetCalls == { <<"M", "x">>, <<"M", "y">>, <<"A", "x">>, <<"A", "y">> }

WidgetInit == Opened(WidgetFile)

WidgetNext ==
    \/ \E c \in WidgetCalls, fontSize \in FontSizes : CallSetField(c[1], c[2], fontSize)
    \/ CallWrite
    \/ CallOpen

WidgetSpec == WidgetInit /\ [][WidgetNext]_vars

(* The appearance dictionary of the widget dictionary wd, as a Write would *)
(* leave it.                                                               *)
EffectiveAP(wd) ==
    IF ~Has(wd, "AP") THEN EmptyDict
    ELSE IF IsRef(wd["AP"]) THEN Effective(AsRef(wd["AP"])).d
    ELSE wd["AP"].d

(* The content stream of a widget of WidgetFile that shows value. *)
ContentFor(value) ==
    textCStream(Array(<<Real(0), Real(0), Real(100), Real(20)>>), value, "Helv", 12)

(* The version of widget w a Write leaves has an /AP whose /N is a         *)
(* Reference to a stream that holds the content stream for value.          *)
WidgetShows(w, value) ==
    /\ IsRef(At(EffectiveAP(Effective(w).d), "N"))
    /\ IsStream(Effective(AsRef(EffectiveAP(Effective(w).d)["N"])))
    /\ Effective(AsRef(EffectiveAP(Effective(w).d)["N"])).data = ContentFor(value)

(* C21: after a SetField on a text field returned nil, every widget of the *)
(* field, in the version Write will emit, has an /AP whose /N is a         *)
(* Reference to a stream object with the content stream of the new value.  *)
(* Stated for the first call on a store.                                   *)
C21_TextAppearance ==
    (ret.op = "SetField" /\ ret.res.err = "" /\ Len(hist.calls) = 1 /\ hist.store = 0)
        => \A w \in WidgetsOf[ret.name] : WidgetShows(w, ret.value)

----------------------------------------------------------------------------
(* ClonePage on a page whose field has a child widget that names it as its *)
(* /Parent (specification CloneSpec).                                      *)
(*   1 catalog; 2 page tree; 3 AcroForm; 4 the page; 5 field "G" on the    *)
(*   page with the kid 6; 6 its widget, /Parent 5 0 R; 7 field "S" on the  *)
(*   page, without kids.                                                   *)

KidsFile ==
    << ObjRec(1, 0, Dict([Type |-> Name("Catalog"), Pages |-> Reference(2, 0),
                          AcroForm |-> Reference(3, 0)])),
       ObjRec(2, 0, Dict([Type |-> Name("Pages"), Count |-> Integer(1),
                          Kids |-> Array(<<Reference(4, 0)>>)])),
       ObjRec(3, 0, Dict([Fields |-> Array(<<Reference(5, 0), Reference(7, 0)>>)])),
       ObjRec(4, 0, Dict([Type |-> Name("Page"), Parent |-> Reference(2, 0),
                          Annots |-> Array(<<Reference(6, 0), Reference(7, 0)>>)])),
       ObjRec(5, 0, Dict([T |-> Str("G"), FT |-> Name("Tx"), P |-> Reference(4, 0),
                          Kids |-> Array(<<Reference(6, 0)>>)])),
       ObjRec(6, 0, Dict([Parent |-> Reference(5, 0), P |-> Reference(4, 0),
                          Subtype |-> Name("Widget")])),
       ObjRec(7, 0, Dict([T |-> Str("S"), FT |-> Name("Tx"), P |-> Reference(4, 0)])),
       TableRec(<<Sub(0, <<Line("f", 0, 65535)>> \o [i \in 1..7 |-> Line("n", i, 0)])>>,
                [Root |-> Reference(1, 0), Size |-> Integer(8)]),
       StartXRefRec(8) >>

FormRef == Ref(3, 0)
OldPageRef == Ref(4, 0)
OldFieldRefs == {Ref(5, 0), Ref(7, 0)}
CloneUpdateRefs == {Ref(7, 0)}

CloneInit == Opened(KidsFile)

CloneNext ==
    \/ \E pagenum \in PageNumbers, prefix \in Prefixes : CallClonePage(pagenum, prefix)
    \/ \E r \in CloneUpdateRefs, obj \in NewObjects : CallUpdateObject(r, obj)
    \/ \E obj \in NewObjects : CallCreateObject(obj)
    \/ CallWrite
    \/ CallOpen

CloneSpec == CloneInit /\ [][CloneNext]_vars

(* The references an object holds, at any depth. *)
RECURSIVE RefsOf(_)
RefsOf(o) ==
    IF IsRef(o) THEN {AsRef(o)}
    ELSE IF IsArray(o) THEN UNION {RefsOf(o.a[i]) : i \in 1..Len(o.a)}
    ELSE IF IsDict(o) \/ IsStream(o) THEN UNION {RefsOf(o.d[k]) : k \in DOMAIN o.d}
    ELSE {}

(* The objects of the dirty set upd whose numbers the table xr did not     *)
(* have: the objects a call made.                                          *)
MadeRefs(xr, upd) == {r \in DOMAIN upd : r.Number >= Len(xr)}

(* The clones listed in /Kids of the field list that was added last to     *)
(* AcroForm/Fields of the dirty set upd.                                   *)
ListedClones(upd) ==
    {AsRef(k) : k \in
        {upd[AsRef(upd[FormRef].d["Fields"].a[Len(upd[FormRef].d["Fields"].a)])].d["Kids"].a[i] :
            i \in 1..Len(upd[AsRef(upd[FormRef].d["Fields"].a[Len(upd[FormRef].d["Fields"].a)])].d["Kids"].a)}}

(* No object the call made refers to the original page or to an original  *)
(* field of it.                                                            *)
CloneTranslated(xr, upd) ==
    \A r \in MadeRefs(xr, upd) : RefsOf(upd[r]) \cap ({OldPageRef} \cup OldFieldRefs) = {}

(* The /Parent of every kid of a listed clone is that clone. *)
CloneParents(upd) ==
    \A c \in ListedClones(upd) :
        Has(upd[c].d, "Kids") =>
            \A i \in 1..Len(upd[c].d["Kids"].a) :
                At(upd[AsRef(upd[c].d["Kids"].a[i])].d, "Parent") = Reference(c.Number, c.Generation)

(* The call made one object with the name of each field of the page. *)
ClonedOnce(xr, upd) ==
    \A name \in {"G", "S"} :
        Cardinality({r \in MadeRefs(xr, upd) : IsDict(upd[r]) /\ At(upd[r].d, "T") = Str(name)}) = 1

(* C22: when ClonePage returned nil, no object it made refers to the       *)
(* original page or to an original field of the page, the /Parent of each  *)
(* child widget of a cloned field is the clone listed in /Kids of the new  *)
(* field list, and each field of the page was cloned exactly once.         *)
C22_CloneTranslatesReferences ==
    [][(ret'.op = "ClonePage" /\ ret'.res.err = "")
          => /\ CloneTranslated(xref, updates')
             /\ CloneParents(updates')
             /\ ClonedOnce(xref, updates')]_vars

(* C25: ClonePage with a pagenum that is not below the number of entries   *)
(* of Pages/Kids returns "not that many pages" and leaves the table, the   *)
(* dirty set and with them /Count and /Kids as they were.  Stated for      *)
(* calls made while the page tree is not in the dirty set.                 *)
C25_NotThatManyPages ==
    [][\A pagenum \in PageNumbers, prefix \in Prefixes :
          (/\ CallClonePage(pagenum, prefix)
           /\ PagesRef \notin DOMAIN updates
           /\ pagenum >= Len(Get(xref, file, PagesRef, MaxFuel).obj.d["Kids"].a))
             => /\ ret'.res.err = "not that many pages"
                /\ xref' = xref
                /\ updates' = updates]_vars

----------------------------------------------------------------------------
(* Further properties of the cross-reference reader (specification         *)
(* XRefSpec).                                                              *)

(* One more than the highest object number the pairs of /Index name. *)
RECURSIVE IndexEnd(_)
IndexEnd(index) ==
    IF Len(index) < 2 THEN 0
    ELSE IF index[1] + index[2] > IndexEnd(Tail(Tail(index))) THEN index[1] + index[2]
    ELSE IndexEnd(Tail(Tail(index)))

(* C23: reading an xref stream grows the table to cover the highest object *)
(* number any pair of its /Index names, and stores the entries without an  *)
(* access past the end of the table, in whatever order the pairs come.     *)
C23_XRefStreamGrowth ==
    [][(rd.addr # 0 /\ file[rd.addr].t = "obj")
          => /\ rd'.err # "panic"
             /\ Len(xref') >= IndexEnd(IntsOf(file[rd.addr].body.d["Index"]))]_vars

----------------------------------------------------------------------------
(* readObjectFrom on a buffer without a filler, called again on what the   *)
(* object before left of the buffer, as extractObjectFromStream does       *)
(* (specification ParseSpec): file is the buffer, ret the last call with   *)
(* the buffer it was given (in) and the result.                            *)

MaxText == 4        \* bytes of a short text
MaxEntries == 2     \* entries of a dictionary text

(* '1', ' ', 'R', '%', line feed and '/'. *)
ParseBytes == {49, 32, 82, 37, 10, 47}

ShortTexts == SeqsUpTo(ParseBytes, MaxText)

(* Dictionary texts: "<<", the entries "/key value", ">>", with the keys   *)
(* A and B and the values 1, 2, /C and 1 0 R.                              *)
DictKeys == {<<65>>, <<66>>}
DictValues == {<<49>>, <<50>>, <<47, 67>>, <<49, 32, 48, 32, 82>>}
DictEntries == SeqsUpTo([key : DictKeys, value : DictValues], MaxEntries)

RECURSIVE EntriesText(_)
EntriesText(es) ==
    IF es = <<>> THEN <<>>
    ELSE <<47>> \o es[1].key \o <<32>> \o es[1].value \o EntriesText(Tail(es))

DictText(es) == <<60, 60>> \o EntriesText(es) \o <<62, 62>>

(* null, "null  ", "true  ", "false ", "1.5 ", "-1 ", "1 0 obj /A endobj ", *)
(* "[1 /A]", "(A)", "<41>" and "<</Length 1>>stream\nA\r\nendstream ".      *)
MoreTexts ==
    { wNull, wNull \o <<32, 32>>, wTrue \o <<32, 32>>, wFalse \o <<32>>,
      <<49, 46, 53, 32>>, <<45, 49, 32>>,
      <<49, 32, 48, 32>> \o wObj \o <<32, 47, 65, 32>> \o wEndObj \o <<32>>,
      <<91, 49, 32, 47, 65, 93>>, <<40, 65, 41>>, <<60, 52, 49, 62>>,
      <<60, 60, 47>> \o wLength \o <<32, 49, 62, 62>> \o wStream \o <<10, 65, 13, 10>>
          \o wEndStream \o <<32>> }

ParseTexts == ShortTexts \cup {DictText(es) : es \in DictEntries} \cup MoreTexts

ParseInit ==
    /\ file \in ParseTexts
    /\ xref = <<>>
    /\ start = 0
    /\ Info = EmptyDict
    /\ Catalog = EmptyDict
    /\ updates = EmptyDict
    /\ ret = TextRet("none", "", <<>>, <<>>, ParseError(""))
    /\ snap = NoSnap
    /\ nops = 0
    /\ rd = NoReader
    /\ hist = NoHist

(* readObjectFrom(file) returned r: the buffer goes on after the object. *)
ObjectRead(r) ==
    /\ ret' = TextRet("readObjectFrom", "", file, <<>>, r)
    /\ file' = IF r.err = "" THEN r.rest ELSE file

CallReadObjectFrom ==
    /\ ret.res.err = ""
    /\ ObjectRead(readObjectFrom(file))
    /\ UNCHANGED <<xref, start, Info, Catalog, updates, snap, nops, rd, hist>>

ParseNext == CallReadObjectFrom

ParseSpec == ParseInit /\ [][ParseNext]_vars

(* A key occurs twice in the entries es. *)
HasDuplicate(es) == \E i, j \in 1..Len(es) : i # j /\ es[i].key = es[j].key

(* C24: readObjectFrom on the text of a dictionary in which a key occurs   *)
(* twice returns an error, and no dictionary.                              *)
C24_DuplicateKeyIsError ==
    (/\ ret.op = "readObjectFrom"
     /\ \E es \in DictEntries : ret.in = DictText(es) /\ HasDuplicate(es))
        => ret.res.err # ""

(* C30: readObjectFrom returns an object or an error for every buffer: it  *)
(* never calls the filler, which it does not have.                         *)
C30_ClosedBufferNeverFills ==
    ret.op = "readObjectFrom" => ret.res.err # "panic"

----------------------------------------------------------------------------
(* Object numbers (specification Spec). *)

(* The numbers of the object records of the file f. *)
NumbersIn(f) == {f[i].num : i \in {j \in 1..Len(f) : f[j].t = "obj"}}

(* C26: the number CreateObject returns is the number of no object in the  *)
(* file, and the number Write gives the xref stream it emits is neither    *)
(* the number of an object the file had before that Write nor the number   *)
(* of an object of the dirty set.                                          *)
C26_FreshObjectNumbers ==
    [][/\ ret'.op = "CreateObject" => ret'.ref.Number \notin NumbersIn(file)
       /\ (ret'.op = "Write" /\ Len(file') > Len(file))
             => /\ file'[Len(file') - 1].num \notin NumbersIn(file)
                /\ file'[Len(file') - 1].num \notin {r.Number : r \in DOMAIN updates}]_vars

----------------------------------------------------------------------------
(* Rejected calls (specification FieldSpec). *)

(* C27: a SetField that returns an error leaves the dirty set, and with it *)
(* the objects in it, as they were before the call.                        *)
C27_RejectedSetFieldKeepsDirtySet ==
    [][(ret'.op = "SetField" /\ nops' = nops + 1 /\ ret'.res.err \notin {"", "panic"})
          => updates' = updates]_vars

----------------------------------------------------------------------------
(* readXRef and Get on files whose /Prev values and whose object-stream    *)
(* slots may lead back to where they came from (specifications LoopSpec    *)
(* and LoopFairSpec).  The file has an older section at offset 1, the      *)
(* newest section at offset 2 and startxref 2; each section is a classic   *)
(* table or an xref stream, and its /Prev is absent, 1 or 2.  rd.addr is   *)
(* the variable addr of readXRef, 0 once the loop has ended; after that    *)
(* the store is open and Get is called.                                    *)

(* The rows of an xref stream for the slots 0, 1, 2: slots 1 and 2 are     *)
(* plain objects, or slot 1 is in object stream 2 and slot 2 in object     *)
(* stream 1.                                                               *)
PlainRows == << <<0, 0, 0>>, <<1, 1, 0>>, <<1, 2, 0>> >>
CycleRows == << <<0, 0, 0>>, <<2, 2, 0>>, <<2, 1, 0>> >>

LoopStream(rows, prev) ==
    ObjRec(9, 0,
           Stream(WithPrev([Type |-> Name("XRef"), Size |-> Integer(3),
                            Length |-> Integer(4 * Len(rows)),
                            Index |-> Array(<<Integer(0), Integer(3)>>),
                            W |-> Array(<<Integer(1), Integer(2), Integer(1)>>)], prev),
                  Data(<<>>, rows)))

LoopSections(prev) ==
    { TableSection(<<Run(0, <<"f", "n", "n">>)>>, 1, prev),
      LoopStream(PlainRows, prev), LoopStream(CycleRows, prev) }

LoopFiles ==
    { <<s1, s2, StartXRefRec(2)>> :
        s1 \in UNION {LoopSections(prev) : prev \in 0..2},
        s2 \in UNION {LoopSections(prev) : prev \in 0..2} }

LoopGetRefs == {Ref(1, 0), Ref(2, 0)}

LoopInit ==
    /\ file \in LoopFiles
    /\ xref = <<>>
    /\ start = readStartXRef(file).start
    /\ Info = EmptyDict
    /\ Catalog = EmptyDict
    /\ updates = EmptyDict
    /\ ret = Ret("readXRef", NoRef, Ok(Null, 0))
    /\ snap = NoSnap
    /\ nops = 0
    /\ rd = [addr |-> readStartXRef(file).start, seen |-> <<>>, err |-> ""]
    /\ hist = NoHist

(* One turn of "for addr != 0": readXRefSection(addr) returned s. *)
LoopTurn(s) ==
    /\ xref' = s.xr
    /\ Info' = s.info
    /\ rd' = [rd EXCEPT !.addr = IF s.err = "" THEN s.prev ELSE 0, !.err = s.err]
    /\ UNCHANGED <<file, start, Catalog, updates, ret, snap, nops, hist>>

ReadSection ==
    /\ rd.addr # 0
    /\ \E stmFirst \in BOOLEAN : LoopTurn(readXRefSection(xref, Info, file, rd.addr, stmFirst))

(* Get on the store readXRef built. *)
GetAfterOpen(r) ==
    /\ rd.addr = 0
    /\ rd.err = ""
    /\ CallGet(r)

LoopNext ==
    \/ ReadSection
    \/ \E r \in LoopGetRefs : GetAfterOpen(r)

LoopSpec == LoopInit /\ [][LoopNext]_vars

(* The loop of readXRef goes on as long as addr is not 0. *)
LoopFairSpec == LoopSpec /\ WF_vars(ReadSection)

(* C28: readXRef ends on every file, also when the /Prev values lead back  *)
(* to a section already read, and no Get goes on for ever through object   *)
(* stream slots that name each other as their containers.                  *)
C28_OpenAndGetTerminate ==
    /\ <>(rd.addr = 0)
    /\ [](ret.res.err # "diverges")

----------------------------------------------------------------------------
(* The records of the xref stream Write emits (specification Spec). *)

(* The row of the xref stream for the i-th object the last Write emitted   *)
(* holds the offset and the generation of that object's record.            *)
RowMatches(i) ==
    /\ file[Len(file) - 1].body.data.raw[i][2] = snap.flen + i
    /\ file[Len(file) - 1].body.data.raw[i][3] = file[snap.flen + i].gen

(* C29: for every dirty reference a Write emits, the record of the xref    *)
(* stream holds the offset of the object and the generation of the         *)
(* reference; after a fresh Open, Get on the reference succeeds.           *)
C29_XRefRecordKeepsGeneration ==
    /\ (ret.op = "Write" /\ Len(file) > snap.flen)
          => \A i \in 1..Cardinality(DOMAIN snap.updates) : RowMatches(i)
    /\ (ret.op = "Open" /\ snap.taken)
          => \A r \in DOMAIN snap.updates : Get(xref, file, r, MaxFuel).err = ""

====
